---- MODULE Spec2Model ----
(***************************************************************************)
(* Model of the meeting-video pipeline: the job table (app/storage.py),    *)
(* the HTTP handlers that read and write it (app/api/upload.py,            *)
(* app/api/status.py, app/api/results.py) and the orchestrator             *)
(* VideoProcessor.process_video (app/services/video_processor.py).         *)
(*                                                                         *)
(* One action is one handler call, or one stretch of process_video that    *)
(* ends with a write of the job record (or of the results file).           *)
(* Progress is kept in whole percent; the overall progress, a mean over    *)
(* the stage list, is kept in units of 1/Len(all_steps) percent so that    *)
(* the division of the source is exact.                                    *)
(***************************************************************************)
EXTENDS Integers, Sequences, FiniteSets, TLC

-----------------------------------------------------------------------------
(* Bounds *)

MaxJobs == 1

MaxFrames == 2

-----------------------------------------------------------------------------
(* Values *)

\* Python's None for string-valued fields
NONE == "None"

\* ProcessingStatus
QUEUED == "queued"

PROCESSING == "processing"

COMPLETE == "complete"

ERROR == "error"

Jobs == 1..MaxJobs

\* the worker threads: each runs process_video once
Threads == {"t1", "t2"}

\* str(e) of the exception a stage raises: it may be the empty string
\* (an exception constructed without arguments) or a text
Messages == {"", "boom"}

\* what the file at video_path turns out to be when process_video looks at it
VideoKinds == {"missing", "corrupt", "ok"}

StepNames ==
  << "Initializing", "Extracting audio", "Detecting scene changes",
     "Extracting frames", "Fingerprinting slides", "Deduplicating slides",
     "Transcribing audio", "Generating summary", "Saving results" >>

\* all_steps as process_video defines it on entry
InitialSteps ==
  [i \in 1..Len(StepNames) |->
     [name |-> StepNames[i], progress |-> 0,
      status |-> IF i = 1 THEN "in_progress" ELSE "pending",
      details |-> NONE]]

\* the record upload_video stores: no progress, current_step, steps or
\* error key yet (dict.get gives None for them)
NewJob ==
  [status |-> QUEUED, progress |-> << >>, current_step |-> NONE,
   steps |-> << >>, error |-> NONE]

\* a thread that has left process_video: its local variables are gone
Ended(worker, how) ==
  [worker EXCEPT !.pc = how, !.all_steps = << >>, !.audio_path = FALSE,
                 !.current = 0, !.total = 0, !.frames = 0,
                 !.transcript = << >>, !.summary = NONE, !.summarizer = FALSE]

\* no thread
NoWorker ==
  [job |-> 0, pc |-> "none", all_steps |-> << >>, video |-> "unknown",
   audio_path |-> FALSE, current |-> 0, total |-> 0, frames |-> 0,
   error_msg |-> NONE, transcript |-> << >>, summary |-> NONE,
   summarizer |-> FALSE]

\* a thread that has not looked at its video yet
NewWorker(job_id) ==
  [job |-> job_id, pc |-> "init", all_steps |-> InitialSteps,
   video |-> "unknown", audio_path |-> FALSE,
   current |-> 0, total |-> 0, frames |-> 0, error_msg |-> NONE,
   transcript |-> << >>, summary |-> NONE, summarizer |-> FALSE]

-----------------------------------------------------------------------------
(* State *)

VARIABLES
  jobs_db,        \* job_id -> job record, for the job ids that are stored
  workers,        \* thread -> the process_video it runs, its position and locals
  results_files   \* job_id -> what <job_id>_results.json holds, for the
                  \* files that exist: "partial" while it is written, "full"

\* the arguments and the return values of the functions of SlideDeduplicator
\* when they are called on their own; a return value r is kept as << r >>,
\* and << >> stands for no call made yet
VARIABLES
  fingerprints,   \* the list given to deduplicate_slides and, when it has
                  \* two elements, the pair given to are_slides_similar
  unique_slides,  \* what deduplicate_slides returned, one entry for each call
  slide_groups,   \* the groups deduplicate_slides formed, as lists of positions,
                  \* one entry for each call
  similar,        \* what are_slides_similar returned
  cosine,         \* what cosine_similarity returned for the two embeddings
  appearances,    \* the list given to _merge_appearances
  merged          \* what _merge_appearances returned

\* the arguments, the settings and the return values of
\* FrameExtractor.extract_frames when it is called on its own, in hundredths
\* of a second
VARIABLES
  scene_boundaries,          \* the start_time of every scene boundary given
  duration,                  \* what _get_video_duration answers for the video
  skip_periodic_extraction,  \* settings.skip_periodic_extraction
  failed_calls,              \* the calls of extract_frame_at_time, counted from 1,
                             \* that returned None
  all_frames,                \* all_frames before the duplicates are removed
  unique_frames              \* what extract_frames returned

\* SlideFingerprinter and the locals of its fingerprint_frames, one frame
\* of the list after the other
VARIABLES
  use_fast_prefilter,  \* settings.use_fast_prefilter
  rekognition_client,  \* whether the OCR client was made
  clip_model,          \* whether the CLIP model was loaded
  recent_hashes,       \* the window of (hash, timestamp) pairs
  ocr_error_count,     \* self.ocr_error_count
  ocr_disabled,        \* self.ocr_disabled
  frame_log            \* the frames gone through so far and what happened to each

\* the calls SceneDetector.detect_scenes and the Summarizer make to their
\* remote services when they are called on their own
VARIABLES
  s3_key,         \* the s3_key detect_scenes is given, None or a key
  wait_time,      \* wait_time of detect_scenes_s3, in seconds
  job_status,     \* the JobStatus of the last answer of get_segment_detection
  detect_error,   \* the message of the exception detect_scenes_s3 raised
  boundaries,     \* what detect_scenes returned: << "remote" >> or << "local" >>
  invoked_by,     \* the function of the Summarizer that invokes the model
  attempts,       \* the turns of its loop over model_ids_to_try so far
  returned        \* how that function ended: << >> while it runs

pipeline_vars == << jobs_db, workers, results_files >>

remote_vars == << s3_key, wait_time, job_status, detect_error, boundaries, invoked_by,
                  attempts, returned >>

extract_vars == << scene_boundaries, duration, skip_periodic_extraction, failed_calls,
                   all_frames, unique_frames >>

fingerprint_vars == << use_fast_prefilter, rekognition_client, clip_model, recent_hashes,
                       ocr_error_count, ocr_disabled, frame_log >>

dedup_vars == << fingerprints, unique_slides, slide_groups, similar, cosine, appearances,
                 merged >>

vars == << jobs_db, workers, results_files,
           fingerprints, unique_slides, slide_groups, similar, cosine, appearances,
           merged,
           scene_boundaries, duration, skip_periodic_extraction, failed_calls,
           all_frames, unique_frames,
           use_fast_prefilter, rekognition_client, clip_model, recent_hashes,
           ocr_error_count, ocr_disabled, frame_log,
           s3_key, wait_time, job_status, detect_error, boundaries, invoked_by,
           attempts, returned >>

\* extract_frames has not been called
NoExtraction ==
  /\ scene_boundaries = << >>
  /\ duration = 0
  /\ skip_periodic_extraction = FALSE
  /\ failed_calls = {}
  /\ all_frames = << >>
  /\ unique_frames = << >>

\* fingerprint_frames has not been called: the SlideFingerprinter as
\* __init__ leaves it when neither the client nor the model is there
NoFingerprinting ==
  /\ use_fast_prefilter = FALSE
  /\ rekognition_client = FALSE
  /\ clip_model = FALSE
  /\ recent_hashes = << >>
  /\ ocr_error_count = 0
  /\ ocr_disabled = FALSE
  /\ frame_log = << >>

\* neither detect_scenes nor the Summarizer has been called on its own
NoRemoteCalls ==
  /\ s3_key = NONE
  /\ wait_time = 0
  /\ job_status = NONE
  /\ detect_error = NONE
  /\ boundaries = << >>
  /\ invoked_by = NONE
  /\ attempts = << >>
  /\ returned = << >>

-----------------------------------------------------------------------------
(* Settings and the optional services of VideoProcessor.__init__ *)

\* the attributes class Settings declares
SettingsFields ==
  { "aws_access_key_id", "aws_secret_access_key", "aws_session_token",
    "aws_region", "s3_bucket_name", "bedrock_model_id", "upload_dir",
    "temp_dir", "results_dir", "frame_extraction_interval",
    "skip_periodic_extraction", "use_fast_prefilter",
    "clip_similarity_threshold", "ocr_text_similarity_threshold" }

\* Transcriber() reads settings.deepgram_api_key first; an attribute that
\* Settings does not declare raises AttributeError, which
\* VideoProcessor.__init__ catches, leaving self.transcriber = None
transcriber == "deepgram_api_key" \in SettingsFields

-----------------------------------------------------------------------------
(* The progress callback of process_video *)

\* the loop of update_step_progress: the stage named step_name takes the
\* progress; its status moves only on progress > 0 and progress >= 100
step_update(all_steps, step_name, progress, details) ==
  [i \in DOMAIN all_steps |->
     IF all_steps[i].name = step_name
       THEN [all_steps[i] EXCEPT
               !.progress = progress,
               !.status = IF progress >= 100 THEN "complete"
                          ELSE IF progress > 0 THEN "in_progress" ELSE @,
               !.details = IF details # NONE THEN details ELSE @]
       ELSE all_steps[i]]

RECURSIVE SumProgress(_, _)
SumProgress(all_steps, n) ==
  IF n = 0 THEN 0 ELSE all_steps[n].progress + SumProgress(all_steps, n - 1)

\* a mean taken over the stages that have started only
total_progress_m(all_steps) ==
  LET started == {i \in DOMAIN all_steps : all_steps[i].progress > 0}
  IN IF started = {} THEN 0
     ELSE (SumProgress(all_steps, Len(all_steps)) * 100) \div Cardinality(started)

\* sum(step.progress for step in all_steps) / len(all_steps), kept in
\* hundredths of a percent
total_progress(all_steps) ==
  (SumProgress(all_steps, Len(all_steps)) * 100) \div Len(all_steps)

\* next((s for s in all_steps if s.status == "in_progress"), None)
current_step_name(all_steps) ==
  LET active == {i \in DOMAIN all_steps : all_steps[i].status = "in_progress"}
  IN IF active = {} THEN NONE
     ELSE all_steps[CHOOSE i \in active : \A k \in active : i <= k].name

\* update_job_status: a job id that is not stored is left alone; status is
\* always written; progress and steps when not None; current_step and
\* error only when truthy (neither None nor the empty string)
update_job_status(db, job_id, status, progress, current_step, steps, error) ==
  IF job_id \notin DOMAIN db THEN db
  ELSE [db EXCEPT ![job_id] =
          [@ EXCEPT
             !.status = status,
             !.progress = IF progress # << >> THEN progress ELSE @,
             !.current_step =
                IF current_step # NONE /\ current_step # ""
                  THEN current_step ELSE @,
             !.steps = IF steps # << >> THEN steps ELSE @,
             !.error = IF error # NONE /\ error # "" THEN error ELSE @]]

\* a callback that does not cap its percentage
callback_progress_m(current, total) ==
  LET t == IF total > 1 THEN total ELSE 1
  IN (current * 100) \div t

\* min(100.0, (current / max(total, 1)) * 100) of the two stage callbacks
callback_progress(current, total) ==
  LET t == IF total > 1 THEN total ELSE 1
      p == (current * 100) \div t
  IN IF p < 100 THEN p ELSE 100

-----------------------------------------------------------------------------
(* process_video: one action per write of the job record *)

\* update_step_progress(step_name, progress, details) as called by worker i,
\* which goes on as next
update_step_progress(i, step_name, progress, details, next) ==
  LET steps == step_update(workers[i].all_steps, step_name, progress, details)
  IN /\ jobs_db' = update_job_status(jobs_db, workers[i].job, PROCESSING,
                                      << total_progress(steps) >>,
                                      current_step_name(steps), steps, NONE)
     /\ workers' = [workers EXCEPT ![i] = [next EXCEPT !.all_steps = steps]]

\* an except clause that also writes the progress back to 0
except_handler_m(i, error_msg) ==
  /\ jobs_db' = update_job_status(jobs_db, workers[i].job, ERROR,
                                   << 0 >>, NONE, << >>, error_msg)
  /\ workers' = [workers EXCEPT
                   ![i] = [Ended(workers[i], "failed") EXCEPT !.error_msg = error_msg]]

\* the except clause of process_video: error_msg = str(e) is printed and
\* handed to update_job_status with status ERROR and nothing else
except_handler(i, error_msg) ==
  /\ jobs_db' = update_job_status(jobs_db, workers[i].job, ERROR,
                                   << >>, NONE, << >>, error_msg)
  /\ workers' = [workers EXCEPT
                   ![i] = [Ended(workers[i], "failed") EXCEPT !.error_msg = error_msg]]

\* line 129
Initializing(i) ==
  /\ workers[i].pc = "init"
  /\ update_step_progress(i, "Initializing", 100, NONE,
                          [workers[i] EXCEPT !.pc = "audio_begin"])
  /\ UNCHANGED << remote_vars, results_files, dedup_vars, extract_vars, fingerprint_vars >>

\* lines 131-146: the existence check, then the first audio callback
ExtractAudioBegin(i) ==
  /\ workers[i].pc = "audio_begin"
  /\ \E v \in VideoKinds :
       IF v = "missing"
         THEN except_handler(i, "Video file not found")
         ELSE update_step_progress(i, "Extracting audio", 0, NONE,
                [workers[i] EXCEPT !.pc = "audio_run", !.video = v])
  /\ UNCHANGED << remote_vars, results_files, dedup_vars, extract_vars, fingerprint_vars >>

\* lines 147-153: extract_audio gives a path, or None when no audio stream
\* is found (the only outcome for a file ffprobe cannot read), or raises
ExtractAudio(i) ==
  /\ workers[i].pc = "audio_run"
  /\ \/ \E audio \in (IF workers[i].video = "corrupt" THEN {FALSE} ELSE BOOLEAN) :
          update_step_progress(i, "Extracting audio", 100,
            IF audio THEN "Audio extracted" ELSE "No audio stream found",
            [workers[i] EXCEPT !.pc = "scenes_begin", !.audio_path = audio])
     \/ /\ workers[i].video = "ok"
        /\ except_handler(i, "Failed to extract audio")
  /\ UNCHANGED << remote_vars, results_files, dedup_vars, extract_vars, fingerprint_vars >>

\* line 156
DetectScenesBegin(i) ==
  /\ workers[i].pc = "scenes_begin"
  /\ update_step_progress(i, "Detecting scene changes", 0, NONE,
                          [workers[i] EXCEPT !.pc = "scenes_run"])
  /\ UNCHANGED << remote_vars, results_files, dedup_vars, extract_vars, fingerprint_vars >>

\* lines 157-164: s3_key is None, so detect_scenes takes the local fallback,
\* which catches every failure of its own
DetectScenes(i) ==
  /\ workers[i].pc = "scenes_run"
  /\ update_step_progress(i, "Detecting scene changes", 100,
                          "Found scene boundaries",
                          [workers[i] EXCEPT !.pc = "frames_begin"])
  /\ UNCHANGED << remote_vars, results_files, dedup_vars, extract_vars, fingerprint_vars >>

\* line 167; extract_frames then estimates the total: 0 for a video whose
\* duration cannot be read, scene count + periodic count otherwise
ExtractFramesBegin(i) ==
  /\ workers[i].pc = "frames_begin"
  /\ \E t \in (IF workers[i].video = "corrupt" THEN {0} ELSE 1..MaxFrames) :
       update_step_progress(i, "Extracting frames", 0, NONE,
         [workers[i] EXCEPT !.pc = "frames_run", !.current = 0, !.total = t])
  /\ UNCHANGED << remote_vars, results_files, dedup_vars, extract_vars, fingerprint_vars >>

\* extract_frames lines 241-250 and 284-293: the first callback, after the
\* scene frames (any number of which may have failed) or, with no duration,
\* after the empty periodic pass
ExtractFramesScenes(i) ==
  /\ workers[i].pc = "frames_run"
  /\ \E c \in (IF workers[i].video = "corrupt" THEN {0} ELSE 0..MaxFrames) :
       update_step_progress(i, "Extracting frames",
         callback_progress(c, workers[i].total), "Extracted current/total frames",
         [workers[i] EXCEPT
            !.pc = IF workers[i].video = "corrupt" THEN "frames_end"
                   ELSE "frames_periodic",
            !.current = c])
  /\ UNCHANGED << remote_vars, results_files, dedup_vars, extract_vars, fingerprint_vars >>

\* extract_frames lines 265-283: one callback per periodic frame extracted
ExtractFramesPeriodic(i) ==
  /\ workers[i].pc = "frames_periodic"
  /\ workers[i].current < MaxFrames
  /\ update_step_progress(i, "Extracting frames",
       callback_progress(workers[i].current + 1, workers[i].total),
       "Extracted current/total frames",
       [workers[i] EXCEPT !.current = @ + 1])
  /\ UNCHANGED << remote_vars, results_files, dedup_vars, extract_vars, fingerprint_vars >>

\* extract_frames lines 295-304 and line 197: frames with an equal rounded
\* timestamp are dropped, at least one of several is kept
ExtractFramesEnd(i) ==
  /\ workers[i].pc \in {"frames_periodic", "frames_end"}
  /\ \E n \in 0..workers[i].current :
       /\ (n = 0) <=> (workers[i].current = 0)
       /\ update_step_progress(i, "Extracting frames", 100, "Extracted frames",
            [workers[i] EXCEPT !.pc = "fingerprint_begin", !.frames = n,
                               !.current = 0, !.total = 0])
  /\ UNCHANGED << remote_vars, results_files, dedup_vars, extract_vars, fingerprint_vars >>

\* line 200
FingerprintBegin(i) ==
  /\ workers[i].pc = "fingerprint_begin"
  /\ update_step_progress(i, "Fingerprinting slides", 0, NONE,
        [workers[i] EXCEPT !.pc = "fingerprint_run", !.current = 0,
                           !.total = workers[i].frames])
  /\ UNCHANGED << remote_vars, results_files, dedup_vars, extract_vars, fingerprint_vars >>

\* fingerprint_frames: one callback (i + 1, total) per frame, whether the
\* frame is fingerprinted, skipped or fails; then line 212
Fingerprint(i) ==
  /\ workers[i].pc = "fingerprint_run"
  /\ IF workers[i].current < workers[i].total
       THEN update_step_progress(i, "Fingerprinting slides",
              callback_progress(workers[i].current + 1, workers[i].total),
              "Processing frame current/total",
              [workers[i] EXCEPT !.current = @ + 1])
       ELSE update_step_progress(i, "Fingerprinting slides", 100,
              "Fingerprinted frames",
              [workers[i] EXCEPT !.pc = "deduplicate_begin", !.frames = 0,
                                 !.current = 0, !.total = 0])
  /\ UNCHANGED << remote_vars, results_files, dedup_vars, extract_vars, fingerprint_vars >>

\* line 215
DeduplicateBegin(i) ==
  /\ workers[i].pc = "deduplicate_begin"
  /\ update_step_progress(i, "Deduplicating slides", 0, NONE,
                          [workers[i] EXCEPT !.pc = "deduplicate_run"])
  /\ UNCHANGED << remote_vars, results_files, dedup_vars, extract_vars, fingerprint_vars >>

\* lines 216-217: deduplicate_slides returns, or an exception leaves it
Deduplicate(i) ==
  /\ workers[i].pc = "deduplicate_run"
  /\ \/ update_step_progress(i, "Deduplicating slides", 100,
                              "Found unique slides",
                              [workers[i] EXCEPT !.pc = "transcribe"])
     \/ \E error_msg \in Messages : except_handler(i, error_msg)
  /\ UNCHANGED << remote_vars, results_files, dedup_vars, extract_vars, fingerprint_vars >>

\* a pipeline in which a video without audio fails the job
Transcribe_m(i) ==
  /\ workers[i].pc = "transcribe"
  /\ IF ~ workers[i].audio_path
       THEN except_handler(i, "No audio stream found")
       ELSE update_step_progress(i, "Transcribing audio", 100,
              "Skipped (transcriber unavailable)",
              [workers[i] EXCEPT !.pc = "summary", !.transcript = << >>])
  /\ UNCHANGED << remote_vars, results_files, dedup_vars, extract_vars, fingerprint_vars >>

\* lines 220-230: transcript = [], and the transcriber is called only with
\* an audio path and a transcriber
Transcribe(i) ==
  /\ workers[i].pc = "transcribe"
  /\ IF workers[i].audio_path /\ transcriber
       THEN update_step_progress(i, "Transcribing audio", 0,
              "Sending audio to Deepgram...",
              [workers[i] EXCEPT !.pc = "transcribe_run", !.transcript = << >>])
       ELSE update_step_progress(i, "Transcribing audio", 100,
              IF ~ workers[i].audio_path THEN "Skipped (no audio)"
              ELSE "Skipped (transcriber unavailable)",
              [workers[i] EXCEPT !.pc = "summary", !.transcript = << >>])
  /\ UNCHANGED << remote_vars, results_files, dedup_vars, extract_vars, fingerprint_vars >>

\* the two placeholder texts of lines 244 and 251
NoAudioSummary == "No audio track found in video. Summary based on slides only."

UnavailableSummary == "Summary generation unavailable. Please check configuration."

\* a pipeline that needs its summarizer: without one the stage raises
GenerateSummary_m(i) ==
  /\ workers[i].pc = "summary"
  /\ \E available \in BOOLEAN :
       IF ~ available
         THEN except_handler(i, "AWS credentials not set")
         ELSE update_step_progress(i, "Generating summary", 100,
                "Placeholder summary created",
                [workers[i] EXCEPT !.pc = "save_begin", !.summarizer = available,
                                   !.summary = NoAudioSummary])
  /\ UNCHANGED << remote_vars, results_files, dedup_vars, extract_vars, fingerprint_vars >>

\* lines 233-255: self.summarizer is there or not, as Summarizer() found its
\* credentials or raised in VideoProcessor.__init__; it is called only with
\* a non-empty transcript, otherwise one of the placeholders is built
GenerateSummary(i) ==
  /\ workers[i].pc = "summary"
  /\ \E available \in BOOLEAN :
       IF available /\ workers[i].transcript # << >>
         THEN update_step_progress(i, "Generating summary", 0,
                "Sending to Claude...",
                [workers[i] EXCEPT !.pc = "summary_run", !.summarizer = available])
         ELSE update_step_progress(i, "Generating summary", 100,
                "Placeholder summary created",
                [workers[i] EXCEPT
                   !.pc = "save_begin", !.summarizer = available,
                   !.summary = IF workers[i].transcript = << >>
                                 THEN NoAudioSummary ELSE UnavailableSummary])
  /\ UNCHANGED << remote_vars, results_files, dedup_vars, extract_vars, fingerprint_vars >>

\* line 275
SaveBegin(i) ==
  /\ workers[i].pc = "save_begin"
  /\ update_step_progress(i, "Saving results", 0, NONE,
                          [workers[i] EXCEPT !.pc = "save_run"])
  /\ UNCHANGED << remote_vars, results_files, dedup_vars, extract_vars, fingerprint_vars >>

\* the file of job_id created or truncated, or written to its end
write_file(files, job_id, content) ==
  [k \in DOMAIN files \cup {job_id} |-> IF k = job_id THEN content ELSE files[k]]

\* lines 277-311: the results are formatted and open(results_file, "w")
\* creates the file or empties the one that is there; or one of the two raises
OpenResultsFile(i) ==
  /\ workers[i].pc = "save_run"
  /\ \/ /\ results_files' = write_file(results_files, workers[i].job, "partial")
        /\ workers' = [workers EXCEPT ![i].pc = "save_write"]
        /\ UNCHANGED << remote_vars, jobs_db, dedup_vars, extract_vars, fingerprint_vars >>
     \/ /\ \E error_msg \in Messages : except_handler(i, error_msg)
        /\ UNCHANGED << remote_vars, results_files, dedup_vars, extract_vars, fingerprint_vars >>

\* line 312: json.dump writes the results and the file is closed, or the
\* write raises and leaves what was written so far
SaveResults(i) ==
  /\ workers[i].pc = "save_write"
  /\ \/ /\ results_files' = write_file(results_files, workers[i].job, "full")
        /\ workers' = [workers EXCEPT ![i].pc = "finish"]
        /\ UNCHANGED << remote_vars, jobs_db, dedup_vars, extract_vars, fingerprint_vars >>
     \/ /\ \E error_msg \in Messages : except_handler(i, error_msg)
        /\ UNCHANGED << remote_vars, results_files, dedup_vars, extract_vars, fingerprint_vars >>

\* the completion write without the loop that marks the stages
mark_all_complete_m(all_steps) ==
  all_steps

\* lines 315-318
mark_all_complete(all_steps) ==
  [k \in DOMAIN all_steps |->
     IF all_steps[k].status # "complete"
       THEN [all_steps[k] EXCEPT !.status = "complete", !.progress = 100]
       ELSE all_steps[k]]

\* lines 314-327
Finish(i) ==
  /\ workers[i].pc = "finish"
  /\ LET steps == mark_all_complete(workers[i].all_steps)
     IN /\ jobs_db' = update_job_status(jobs_db, workers[i].job, COMPLETE,
                                         << 100 * 100 >>, "Complete", steps, NONE)
        /\ workers' = [workers EXCEPT ![i] = Ended(workers[i], "done")]
  /\ UNCHANGED << remote_vars, results_files, dedup_vars, extract_vars, fingerprint_vars >>

-----------------------------------------------------------------------------
(* Starting a worker thread *)

\* VideoProcessor.process_video_async(self, job_id, video_path): a call with
\* two positional arguments starts a daemon thread running process_video;
\* with any other number Python raises TypeError before the body runs
process_video_async(threads, t, args) ==
  IF Len(args) = Len(<< "job_id", "video_path" >>)
    THEN [raised |-> FALSE, threads |-> [threads EXCEPT ![t] = NewWorker(args[1])]]
    ELSE [raised |-> TRUE, threads |-> threads]

\* the threads not started yet
Free(threads) == {t \in Threads : threads[t].pc = "none"}

\* the thread the next start creates
NextThread(threads) ==
  IF "t1" \in Free(threads) THEN "t1" ELSE "t2"

\* process_video_async called as declared, by code in the same process, for
\* a stored job
StartProcessing(job_id) ==
  /\ job_id \in DOMAIN jobs_db
  /\ Free(workers) # {}
  /\ workers' = process_video_async(workers, NextThread(workers),
                                     << job_id, "video_path" >>).threads
  /\ UNCHANGED << remote_vars, jobs_db, results_files, dedup_vars, extract_vars, fingerprint_vars >>

-----------------------------------------------------------------------------
(* HTTP handlers. The status code each one answers with is given by an     *)
(* operator of the state it is called in.                                  *)

\* the answer of upload_video for a valid file
upload_video_code(threads) ==
  IF process_video_async(threads, NextThread(threads),
       << 0, "local_file_path", "processing_options" >>).raised
    THEN 500 ELSE 200

\* the answer of resume_processing for a stored job whose file exists
resume_processing_code(threads) ==
  IF process_video_async(threads, NextThread(threads),
       << 0, "local_path", "processing_options" >>).raised
    THEN 500 ELSE 200

\* POST /api/upload: a file name without an allowed extension is refused
\* (400) before anything is stored. Otherwise the file is saved, the record
\* is stored under a fresh uuid4 job id and process_video_async is called
\* with (job_id, path, processing_options); when that call raises, the
\* handler's except clause removes the saved file and answers 500
upload_video ==
  \E valid \in BOOLEAN :
    IF ~ valid THEN UNCHANGED vars
    ELSE \E job_id \in Jobs \ DOMAIN jobs_db :
           /\ \A k \in Jobs \ DOMAIN jobs_db : job_id <= k
           /\ upload_video_code(workers) = 500 \/ Free(workers) # {}
           /\ jobs_db' = jobs_db @@ (job_id :> NewJob)
           /\ workers' = process_video_async(workers, NextThread(workers),
                  << job_id, "local_file_path", "processing_options" >>).threads
           /\ UNCHANGED << remote_vars, results_files, dedup_vars, extract_vars, fingerprint_vars >>

\* a resume that marks the job as processing at once
resume_processing_m(job_id) ==
  \E file_exists \in BOOLEAN :
    IF job_id \notin DOMAIN jobs_db \/ ~ file_exists
      THEN UNCHANGED vars
      ELSE /\ resume_processing_code(workers) = 500 \/ Free(workers) # {}
           /\ jobs_db' = [jobs_db EXCEPT ![job_id].status = PROCESSING,
                                          ![job_id].error = NONE]
           /\ workers' = process_video_async(workers, NextThread(workers),
                  << job_id, "local_path", "processing_options" >>).threads
           /\ UNCHANGED << remote_vars, results_files, dedup_vars, extract_vars, fingerprint_vars >>

\* POST /api/resume/{job_id}: 404 for an unknown job or a missing video
\* file; otherwise status and error are reset and process_video_async is
\* called with (job_id, local_path, processing_options); an exception of
\* that call leaves the handler and is answered 500
resume_processing(job_id) ==
  \E file_exists \in BOOLEAN :
    IF job_id \notin DOMAIN jobs_db \/ ~ file_exists
      THEN UNCHANGED vars
      ELSE /\ resume_processing_code(workers) = 500 \/ Free(workers) # {}
           /\ jobs_db' = [jobs_db EXCEPT ![job_id].status = QUEUED,
                                          ![job_id].error = NONE]
           /\ workers' = process_video_async(workers, NextThread(workers),
                  << job_id, "local_path", "processing_options" >>).threads
           /\ UNCHANGED << remote_vars, results_files, dedup_vars, extract_vars, fingerprint_vars >>

\* GET /api/status/{job_id}: the stored record as it is, or 404
get_processing_status(job_id) ==
  UNCHANGED vars

\* a loader that looks for the results file without looking at the status
load_results_data_m(db, files, job_id) ==
  IF job_id \notin DOMAIN db THEN [code |-> 404, results |-> FALSE]
  ELSE IF job_id \notin DOMAIN files THEN [code |-> 404, results |-> FALSE]
  ELSE IF files[job_id] # "full" THEN [code |-> 500, results |-> FALSE]
  ELSE [code |-> 200, results |-> TRUE]

\* _load_results_data followed by get_results: the answer for job_id;
\* json.load of a file that is not written to its end raises
\* JSONDecodeError, which no handler catches (500)
load_results_data(db, files, job_id) ==
  IF job_id \notin DOMAIN db THEN [code |-> 404, results |-> FALSE]
  ELSE IF db[job_id].status # COMPLETE THEN [code |-> 400, results |-> FALSE]
  ELSE IF job_id \notin DOMAIN files THEN [code |-> 404, results |-> FALSE]
  ELSE IF files[job_id] # "full" THEN [code |-> 500, results |-> FALSE]
  ELSE [code |-> 200, results |-> TRUE]

\* GET /api/results/{job_id}
get_results(job_id) ==
  UNCHANGED vars

-----------------------------------------------------------------------------
(* SlideDeduplicator. A time is a number of tenths of a second, an          *)
(* embedding a list of integers, a text a list of characters. A similarity  *)
(* is kept exact: a cosine as dot / sqrt(sq), a ratio as matches / total.   *)

\* settings.clip_similarity_threshold, in percent
clip_threshold == 95

\* settings.ocr_text_similarity_threshold, in percent
text_threshold == 80

\* the 1.0 second gap tolerance of _merge_appearances
gap_tolerance == 10

\* the 5.0 seconds deduplicate_slides gives every appearance
appearance_duration == 50

\* np.dot of two vectors of one length
RECURSIVE dot_product(_, _)
dot_product(v1, v2) ==
  IF v1 = << >> \/ v2 = << >> THEN 0
  ELSE Head(v1) * Head(v2) + dot_product(Tail(v1), Tail(v2))

\* 0.0
zero_similarity == [dot |-> 0, sq |-> 1]

\* a cosine that takes two zero vectors for the same picture
cosine_similarity_m(vec1, vec2) ==
  IF vec1 = << >> \/ vec2 = << >> THEN zero_similarity
  ELSE IF dot_product(vec1, vec1) = 0 /\ dot_product(vec2, vec2) = 0
    THEN [dot |-> 1, sq |-> 1]
  ELSE IF dot_product(vec1, vec1) = 0 \/ dot_product(vec2, vec2) = 0
    THEN zero_similarity
  ELSE [dot |-> dot_product(vec1, vec2),
        sq |-> dot_product(vec1, vec1) * dot_product(vec2, vec2)]

\* cosine_similarity: 0.0 for an empty vector and for a vector of norm 0
\* (norm == 0 exactly when the sum of squares is 0)
cosine_similarity(vec1, vec2) ==
  IF vec1 = << >> \/ vec2 = << >> THEN zero_similarity
  ELSE IF dot_product(vec1, vec1) = 0 \/ dot_product(vec2, vec2) = 0
    THEN zero_similarity
  ELSE [dot |-> dot_product(vec1, vec2),
        sq |-> dot_product(vec1, vec1) * dot_product(vec2, vec2)]

\* clip_sim >= self.clip_threshold, for a threshold that is not negative
clip_similar(clip_sim, threshold) ==
  /\ clip_sim.dot >= 0
  /\ clip_sim.dot * clip_sim.dot * 100 * 100 >= threshold * threshold * clip_sim.sq

\* str.lower on the characters the texts are made of
lower(text) ==
  [k \in DOMAIN text |->
     IF text[k] = "A" THEN "a" ELSE IF text[k] = "B" THEN "b" ELSE text[k]]

\* difflib.SequenceMatcher: the number of matched characters, found by
\* taking the longest common block of a[alo..ahi-1] and b[blo..bhi-1] (the
\* one that starts earliest in a, then earliest in b) and matching the
\* pieces to its left and to its right in the same way
RECURSIVE matching_characters(_, _, _, _, _, _)
matching_characters(a, alo, ahi, b, blo, bhi) ==
  LET blocks ==
        {blk \in (alo..(ahi - 1)) \X (blo..(bhi - 1)) \X (1..(ahi - alo)) :
           /\ blk[1] + blk[3] <= ahi
           /\ blk[2] + blk[3] <= bhi
           /\ \A d \in 0..(blk[3] - 1) : a[blk[1] + d] = b[blk[2] + d]}
  IN IF blocks = {} THEN 0
     ELSE LET best == CHOOSE blk \in blocks :
                        \A o \in blocks :
                          \/ blk[3] > o[3]
                          \/ blk[3] = o[3] /\ blk[1] < o[1]
                          \/ blk[3] = o[3] /\ blk[1] = o[1] /\ blk[2] <= o[2]
          IN best[3]
             + matching_characters(a, alo, best[1], b, blo, best[2])
             + matching_characters(a, best[1] + best[3], ahi,
                                   b, best[2] + best[3], bhi)

\* text_similarity: 0.0 for an empty text, else
\* SequenceMatcher(None, text1.lower(), text2.lower()).ratio() = 2.0 * M / T
text_similarity(text1, text2) ==
  IF text1 = << >> \/ text2 = << >> THEN [matches |-> 0, total |-> 1]
  ELSE [matches |-> 2 * matching_characters(lower(text1), 1, Len(text1) + 1,
                                            lower(text2), 1, Len(text2) + 1),
        total |-> Len(text1) + Len(text2)]

\* text_sim >= self.text_threshold
text_similar(text_sim, threshold) ==
  text_sim.matches * 100 >= threshold * text_sim.total

\* a comparison that takes an equal hash for a hint only, to be confirmed by
\* the embeddings when both are there
are_slides_similar_m(fingerprint1, fingerprint2) ==
  IF /\ fingerprint1.text_hash # "" /\ fingerprint2.text_hash # ""
     /\ fingerprint1.text_hash = fingerprint2.text_hash
     /\ fingerprint1.embedding = << >> \/ fingerprint2.embedding = << >>
    THEN TRUE
  ELSE IF /\ fingerprint1.embedding # << >> /\ fingerprint2.embedding # << >>
          /\ clip_similar(cosine_similarity(fingerprint1.embedding,
                                            fingerprint2.embedding), clip_threshold)
    THEN TRUE
  ELSE IF /\ fingerprint1.ocr_text # << >> /\ fingerprint2.ocr_text # << >>
          /\ text_similar(text_similarity(fingerprint1.ocr_text,
                                          fingerprint2.ocr_text), text_threshold)
    THEN TRUE
  ELSE FALSE

\* are_slides_similar: equal non-empty hashes, then the embeddings, then
\* the texts
are_slides_similar(fingerprint1, fingerprint2) ==
  IF /\ fingerprint1.text_hash # "" /\ fingerprint2.text_hash # ""
     /\ fingerprint1.text_hash = fingerprint2.text_hash
    THEN TRUE
  ELSE IF /\ fingerprint1.embedding # << >> /\ fingerprint2.embedding # << >>
          /\ clip_similar(cosine_similarity(fingerprint1.embedding,
                                            fingerprint2.embedding), clip_threshold)
    THEN TRUE
  ELSE IF /\ fingerprint1.ocr_text # << >> /\ fingerprint2.ocr_text # << >>
          /\ text_similar(text_similarity(fingerprint1.ocr_text,
                                          fingerprint2.ocr_text), text_threshold)
    THEN TRUE
  ELSE FALSE

\* the elements of a set of numbers, smallest first
RECURSIVE ascending(_)
ascending(S) ==
  IF S = {} THEN << >>
  ELSE LET least == CHOOSE x \in S : \A y \in S : x <= y
       IN << least >> \o ascending(S \ {least})

\* a search that takes a slide similar to any slide since the founder
similar_slides_m(fps, i, processed) ==
  {j \in (i + 1)..Len(fps) :
     j \notin processed /\ \E k \in i..(j - 1) : are_slides_similar(fps[k], fps[j])}

\* the inner loop of deduplicate_slides: the later positions, not yet
\* processed, of the slides similar to the founder at position i
similar_slides(fps, i, processed) ==
  {j \in (i + 1)..Len(fps) :
     j \notin processed /\ are_slides_similar(fps[i], fps[j])}

\* a grouping whose founder forgets to mark the slides it takes
RECURSIVE group_slides_m(_, _, _, _)
group_slides_m(fps, i, processed, groups) ==
  IF i > Len(fps) THEN groups
  ELSE IF i \in processed THEN group_slides_m(fps, i + 1, processed, groups)
  ELSE LET taken == similar_slides(fps, i, processed)
       IN group_slides_m(fps, i + 1, processed \cup {i},
                         Append(groups, << i >> \o ascending(taken)))

\* the grouping loop of deduplicate_slides from position i on (positions
\* count from 1 here, from 0 in the source): a position not yet processed
\* founds a group and takes every later unprocessed position that
\* are_slides_similar to it; the groups are kept in the order of group_id
RECURSIVE group_slides(_, _, _, _)
group_slides(fps, i, processed, groups) ==
  IF i > Len(fps) THEN groups
  ELSE IF i \in processed THEN group_slides(fps, i + 1, processed, groups)
  ELSE LET taken == similar_slides(fps, i, processed)
       IN group_slides(fps, i + 1, processed \cup {i} \cup taken,
                       Append(groups, << i >> \o ascending(taken)))

\* sorted(appearances, key=lambda x: x.start), a stable sort
RECURSIVE sorted_by_start(_)
sorted_by_start(apps) ==
  IF apps = << >> THEN << >>
  ELSE LET first == Head(apps)
           rest == sorted_by_start(Tail(apps))
       IN SelectSeq(rest, LAMBDA a : a.start < first.start)
            \o << first >>
            \o SelectSeq(rest, LAMBDA a : a.start >= first.start)

\* a loop that ends a merged appearance where the folded one ends
RECURSIVE merge_loop_m(_, _, _)
merge_loop_m(result, rest, tolerance) ==
  IF rest = << >> THEN result
  ELSE LET current == Head(rest)
           last == result[Len(result)]
       IN IF current.start <= last.end + tolerance
            THEN merge_loop_m([result EXCEPT ![Len(result)] =
                                 [start |-> last.start, end |-> current.end]],
                              Tail(rest), tolerance)
            ELSE merge_loop_m(Append(result, current), Tail(rest), tolerance)

\* the loop of _merge_appearances over sorted_apps[1:]
RECURSIVE merge_loop(_, _, _)
merge_loop(result, rest, tolerance) ==
  IF rest = << >> THEN result
  ELSE LET current == Head(rest)
           last == result[Len(result)]
       IN IF current.start <= last.end + tolerance
            THEN merge_loop([result EXCEPT ![Len(result)] =
                               [start |-> last.start,
                                end |-> IF last.end >= current.end
                                          THEN last.end ELSE current.end]],
                            Tail(rest), tolerance)
            ELSE merge_loop(Append(result, current), Tail(rest), tolerance)

\* a merge that folds whatever starts within the assumed duration of a slide
merge_appearances_m(apps) ==
  IF apps = << >> THEN << >>
  ELSE LET sorted_apps == sorted_by_start(apps)
       IN merge_loop(<< Head(sorted_apps) >>, Tail(sorted_apps), appearance_duration)

\* _merge_appearances
merge_appearances(apps) ==
  IF apps = << >> THEN << >>
  ELSE LET sorted_apps == sorted_by_start(apps)
       IN merge_loop(<< Head(sorted_apps) >>, Tail(sorted_apps), gap_tolerance)

\* slide ids that count the groups from 1
slide_id_m(group_id) ==
  [prefix |-> "slide_", digits |-> << 0, 0, group_id + 1 >>]

\* f"slide_{group_id:03d}"
slide_id(group_id) ==
  [prefix |-> "slide_",
   digits |-> IF group_id < 10 THEN << 0, 0, group_id >>
              ELSE IF group_id < 100 THEN << 0, group_id \div 10, group_id % 10 >>
              ELSE << group_id \div 100, (group_id \div 10) % 10, group_id % 10 >>]

\* the UniqueSlide deduplicate_slides makes of one group
unique_slide(fps, group_id, indices) ==
  LET representative == fps[indices[1]]
      group_appearances ==
        [k \in DOMAIN indices |->
           [start |-> fps[indices[k]].timestamp,
            end |-> fps[indices[k]].timestamp + appearance_duration]]
  IN [slide_id |-> slide_id(group_id),
      image_url |-> representative.frame_path,
      appearances |-> merge_appearances(sorted_by_start(group_appearances)),
      ocr_text |-> representative.ocr_text,
      discussion_summary |-> NONE]

\* deduplicate_slides
deduplicate_slides(fps) ==
  IF fps = << >> THEN << >>
  ELSE LET groups == group_slides(fps, 1, {}, << >>)
       IN [g \in DOMAIN groups |-> unique_slide(fps, g - 1, groups[g])]

(* The inputs the functions of SlideDeduplicator are given *)

MaxFingerprints == 3
MaxAppearances == 3
MaxRuns == 2

\* embeddings of one dimension: none, the zero vector, and three directions
\* of which the first and the last are each close to the middle one
\* (cosines 0.970 and 0.976) but not to each other (0.894)
Embeddings == { << >>, << 0, 0 >>, << 1, 0 >>, << 4, 1 >>, << 2, 1 >> }

TextHashes == { "", "h1", "h2" }

\* OCR texts: none, a text, a one-character edit of it (ratio 0.8), and a
\* shorter text in another case (ratio 0.67)
Texts == { << >>, << "a", "b", "c", "d", "e" >>, << "a", "b", "c", "d", "x" >>,
           << "A", "b", "c", "x" >> }

\* what fingerprint_frame can make of a frame: no text and no hash, or a
\* text and its hash
FrameFingerprints ==
  { f \in [embedding : Embeddings \ { << 0, 0 >> }, text_hash : { "", "h1" },
           ocr_text : { << >>, << "a", "b", "c", "d", "e" >> },
           timestamp : { 0, 100 }] :
      f.text_hash = "" <=> f.ocr_text = << >> }

\* any two SlideFingerprint objects
AnyFingerprints ==
  [embedding : Embeddings, text_hash : TextHashes, ocr_text : Texts, timestamp : { 0 }]

Appearances ==
  { [start |-> 0, end |-> 40], [start |-> 45, end |-> 60], [start |-> 50, end |-> 60],
    [start |-> 51, end |-> 60], [start |-> 200, end |-> 220], [start |-> 0, end |-> 220],
    [start |-> 40, end |-> 45], [start |-> 60, end |-> 60] }

\* the k-th fingerprint of a list, its frame path told by its position
with_frame_path(f, k) ==
  [embedding |-> f.embedding, text_hash |-> f.text_hash, ocr_text |-> f.ocr_text,
   timestamp |-> f.timestamp, frame_path |-> k]

DedupInit ==
  /\ jobs_db = << >>
  /\ workers = [t \in Threads |-> NoWorker]
  /\ results_files = << >>
  /\ NoExtraction
  /\ NoFingerprinting
  /\ NoRemoteCalls
  /\ unique_slides = << >>
  /\ slide_groups = << >>
  /\ similar = << >>
  /\ cosine = << >>
  /\ merged = << >>
  /\ \/ /\ appearances = << >>
        /\ \E n \in 0..MaxFingerprints : \E fs \in [1..n -> FrameFingerprints] :
             fingerprints = [k \in 1..n |-> with_frame_path(fs[k], k)]
     \/ /\ appearances = << >>
        /\ \E fs \in [1..2 -> AnyFingerprints] :
             fingerprints = [k \in 1..2 |-> with_frame_path(fs[k], k)]
     \/ /\ fingerprints = << >>
        /\ \E n \in 1..MaxAppearances : appearances \in [1..n -> Appearances]

\* a deduplicator that goes on counting its groups from one call to the next
DeduplicateSlides_m ==
  /\ Len(unique_slides) < MaxRuns
  /\ LET groups == group_slides(fingerprints, 1, {}, << >>)
         group_id == IF unique_slides = << >> THEN 0
                     ELSE Len(unique_slides[Len(unique_slides)])
     IN /\ unique_slides' =
             Append(unique_slides,
                    [g \in DOMAIN groups |->
                       unique_slide(fingerprints, group_id + g - 1, groups[g])])
        /\ slide_groups' = Append(slide_groups, groups)
  /\ UNCHANGED << remote_vars, pipeline_vars, extract_vars, fingerprint_vars, fingerprints, similar, cosine, appearances, merged >>

\* self.deduplicator.deduplicate_slides(fingerprints), called on the same
\* list up to MaxRuns times
DeduplicateSlides ==
  /\ Len(unique_slides) < MaxRuns
  /\ unique_slides' = Append(unique_slides, deduplicate_slides(fingerprints))
  /\ slide_groups' = Append(slide_groups, group_slides(fingerprints, 1, {}, << >>))
  /\ UNCHANGED << remote_vars, pipeline_vars, extract_vars, fingerprint_vars, fingerprints, similar, cosine, appearances, merged >>

\* self.are_slides_similar(fingerprint1, fingerprint2)
AreSlidesSimilar ==
  /\ Len(fingerprints) = 2
  /\ similar' = << are_slides_similar(fingerprints[1], fingerprints[2]) >>
  /\ UNCHANGED << remote_vars, pipeline_vars, extract_vars, fingerprint_vars, fingerprints, unique_slides, slide_groups, cosine, appearances,
                  merged >>

\* self.cosine_similarity(fingerprint1.embedding, fingerprint2.embedding)
CosineSimilarity ==
  /\ Len(fingerprints) = 2
  /\ cosine' = << cosine_similarity(fingerprints[1].embedding, fingerprints[2].embedding) >>
  /\ UNCHANGED << remote_vars, pipeline_vars, extract_vars, fingerprint_vars, fingerprints, unique_slides, slide_groups, similar, appearances,
                  merged >>

\* self._merge_appearances(appearances)
MergeAppearances ==
  /\ merged' = << merge_appearances(appearances) >>
  /\ UNCHANGED << remote_vars, pipeline_vars, extract_vars, fingerprint_vars, fingerprints, unique_slides, slide_groups, similar, cosine,
                  appearances >>

DedupNext ==
  \/ DeduplicateSlides
  \/ AreSlidesSimilar
  \/ CosineSimilarity
  \/ MergeAppearances

DedupSpec == DedupInit /\ [][DedupNext]_vars

-----------------------------------------------------------------------------
(* FrameExtractor.extract_frames (app/services/frame_extractor.py). A time  *)
(* is a number of hundredths of a second. A frame path is told by the       *)
(* frame number it is made of.                                              *)

\* settings.frame_extraction_interval, 5.0 seconds
frame_extraction_interval == 500

\* the 1.0 second kept free before the end of the video
end_margin == 100

\* a rounding down to the tenth of a second
round_tenths_m(timestamp) == timestamp \div 10

\* round(frame.timestamp, 1), in tenths of a second, for a timestamp that is
\* not halfway between two tenths (the rounding of such a float follows its
\* binary representation; no such timestamp is among the inputs)
round_tenths(timestamp) ==
  IF timestamp % 10 < 5 THEN timestamp \div 10 ELSE timestamp \div 10 + 1

\* the times of the loop `while current_time < max_time`, current_time
\* going up by the interval
RECURSIVE periodic_times(_, _, _)
periodic_times(current_time, max_time, interval) ==
  IF current_time < max_time
    THEN << current_time >> \o periodic_times(current_time + interval, max_time, interval)
    ELSE << >>

\* the distance from the end within which extract_frame_at_time moves the
\* time it is asked for
safety_margin == 50

\* extract_frame_at_time, lines 76-79: the time ffmpeg is told to seek to,
\* which is the time the image is taken from
seek_time(timestamp, video_duration) ==
  IF video_duration > 0 /\ timestamp >= video_duration - safety_margin
    THEN IF video_duration - end_margin > 0 THEN video_duration - end_margin ELSE 0
    ELSE timestamp

\* a batch that stops at the first call that returns None
RECURSIVE extract_each_m(_, _, _, _, _)
extract_each_m(times, k, call, frame_number, failed) ==
  IF k > Len(times) THEN << >>
  ELSE IF call \in failed THEN << >>
  ELSE << [frame_path |-> frame_number, timestamp |-> times[k],
           frame_number |-> frame_number] >>
         \o extract_each_m(times, k + 1, call + 1, frame_number + 1, failed)

\* the FrameData made for times[k], times[k+1], ...: extract_frame_at_time
\* is called once for each time, this call being the call-th of the run; a
\* call that returns None adds no frame and uses up no frame number
RECURSIVE extract_each(_, _, _, _, _)
extract_each(times, k, call, frame_number, failed) ==
  IF k > Len(times) THEN << >>
  ELSE IF call \in failed
    THEN extract_each(times, k + 1, call + 1, frame_number, failed)
  ELSE << [frame_path |-> frame_number, timestamp |-> times[k],
           frame_number |-> frame_number] >>
         \o extract_each(times, k + 1, call + 1, frame_number + 1, failed)

\* extract_frames_at_scenes: one frame at the start of every scene
extract_frames_at_scenes(scenes, frame_number, failed) ==
  extract_each(scenes, 1, 1, frame_number, failed)

\* extract_frames_periodic, its first call of extract_frame_at_time being
\* the call-th of the run
extract_frames_periodic(video_duration, interval, start_frame_number, call, failed) ==
  IF video_duration <= 0 THEN << >>
  ELSE extract_each(periodic_times(0, video_duration - end_margin, interval), 1, call,
                    start_frame_number, failed)

\* lines 240-293 of extract_frames: the scene frames, then the periodic
\* frames, made by the loop of lines 265-283 or by extract_frames_periodic
collect_frames(scenes, video_duration, skip, failed) ==
  LET scene_frames == IF scenes # << >>
                        THEN extract_frames_at_scenes(scenes, 0, failed) ELSE << >>
      periodic_frames ==
        IF video_duration > 0 /\ ~ skip
          THEN extract_each(periodic_times(0, video_duration - end_margin,
                                           frame_extraction_interval),
                            1, Len(scenes) + 1, Len(scene_frames), failed)
          ELSE extract_frames_periodic(video_duration, frame_extraction_interval,
                                       Len(scene_frames), Len(scenes) + 1, failed)
  IN scene_frames \o periodic_frames

\* an extract_frames that removes nothing
remove_duplicates_m(frames, seen_timestamps) == frames

\* lines 295-302 of extract_frames: a frame is kept when no frame before it
\* has the same rounded timestamp
RECURSIVE remove_duplicates(_, _)
remove_duplicates(frames, seen_timestamps) ==
  IF frames = << >> THEN << >>
  ELSE LET rounded_time == round_tenths(Head(frames).timestamp)
       IN IF rounded_time \notin seen_timestamps
            THEN << Head(frames) >>
                   \o remove_duplicates(Tail(frames), seen_timestamps \cup {rounded_time})
            ELSE remove_duplicates(Tail(frames), seen_timestamps)

\* extract_frames
extract_frames(scenes, video_duration, skip, failed) ==
  remove_duplicates(collect_frames(scenes, video_duration, skip, failed), {})

\* the number of calls of extract_frame_at_time a run makes
extraction_calls(scenes, video_duration) ==
  Len(scenes) + (IF video_duration > 0
                   THEN Len(periodic_times(0, video_duration - end_margin,
                                           frame_extraction_interval))
                   ELSE 0)

(* The videos extract_frames is given *)

MaxScenes == 2
MaxPeriodic == 2

\* scene starts: the start of the video, a time between two periodic
\* samples, a time 0.3 s before the end of the longer video, and three times
\* within a tenth of a second of each other
SceneStarts == { 0, 730, 1120, 1202, 1204, 1207 }

\* no duration (ffprobe failed), or room for 2 to MaxPeriodic + 1 periodic
\* samples
Durations == { 0 } \cup { n * frame_extraction_interval - 350 : n \in 2..(MaxPeriodic + 1) }

\* what the video shows at a time: one slide, then another
slide_at(timestamp) == IF timestamp < 1000 THEN "h1" ELSE "h2"

ExtractInit ==
  /\ jobs_db = << >>
  /\ workers = [t \in Threads |-> NoWorker]
  /\ results_files = << >>
  /\ NoFingerprinting
  /\ NoRemoteCalls
  /\ fingerprints = << >>
  /\ unique_slides = << >>
  /\ slide_groups = << >>
  /\ similar = << >>
  /\ cosine = << >>
  /\ appearances = << >>
  /\ merged = << >>
  /\ \E n \in 0..MaxScenes :
       /\ scene_boundaries \in [1..n -> SceneStarts]
       /\ \A k \in 1..(n - 1) : scene_boundaries[k] <= scene_boundaries[k + 1]
  /\ duration \in Durations
  /\ skip_periodic_extraction \in BOOLEAN
  /\ failed_calls = {}
  /\ all_frames = << >>
  /\ unique_frames = << >>

\* self.frame_extractor.extract_frames(video_path, scene_boundaries, ...),
\* any of its calls of extract_frame_at_time returning None
ExtractFrames ==
  /\ unique_frames = << >>
  /\ \E failed \in SUBSET (1..extraction_calls(scene_boundaries, duration)) :
       /\ failed_calls' = failed
       /\ all_frames' = << collect_frames(scene_boundaries, duration,
                                          skip_periodic_extraction, failed) >>
       /\ unique_frames' = << extract_frames(scene_boundaries, duration,
                                             skip_periodic_extraction, failed) >>
  /\ UNCHANGED << remote_vars, pipeline_vars, dedup_vars, fingerprint_vars, scene_boundaries, duration,
                  skip_periodic_extraction >>

\* process_video, lines 208-216: the frames are fingerprinted in the order
\* extract_frames returned them, each with its own timestamp and path, and
\* the fingerprints are deduplicated
FingerprintAndDeduplicate ==
  /\ unique_frames # << >>
  /\ unique_slides = << >>
  /\ LET frames == unique_frames[1]
         fps == [k \in DOMAIN frames |->
                   [embedding |-> << >>, text_hash |-> slide_at(frames[k].timestamp),
                    ocr_text |-> << slide_at(frames[k].timestamp) >>,
                    timestamp |-> frames[k].timestamp \div 10,  \* in tenths
                    frame_path |-> frames[k].frame_path]]
     IN /\ fingerprints' = fps
        /\ unique_slides' = << deduplicate_slides(fps) >>
        /\ slide_groups' = << group_slides(fps, 1, {}, << >>) >>
  /\ UNCHANGED << remote_vars, pipeline_vars, extract_vars, fingerprint_vars, similar, cosine, appearances,
                  merged >>

ExtractNext ==
  \/ ExtractFrames
  \/ FingerprintAndDeduplicate

ExtractSpec == ExtractInit /\ [][ExtractNext]_vars

-----------------------------------------------------------------------------
(* SlideFingerprinter.fingerprint_frames (app/services/slide_fingerprint.py) *)
(* A time is a number of tenths of a second. A perceptual hash is the list  *)
(* of its 16 hexadecimal digits, << >> when it could not be computed.       *)

\* self.max_ocr_errors
max_ocr_errors == 3

\* max_recent_hashes
max_recent_hashes == 10

\* hash_similarity_threshold
hash_similarity_threshold == 4

\* the 5.0 seconds within which a recent frame counts
recent_seconds == 50

\* _hamming_distance: 64 without a hash or for two lengths, else the number
\* of positions at which the two strings have different characters
hamming_distance(hash1, hash2) ==
  IF hash1 = << >> \/ hash2 = << >> \/ Len(hash1) # Len(hash2) THEN 64
  ELSE Cardinality({ k \in DOMAIN hash1 : hash1[k] # hash2[k] })

\* lines 316-323: should_skip
should_skip(frame_hash, timestamp, recent) ==
  \E k \in DOMAIN recent :
    /\ hamming_distance(frame_hash, recent[k].hash) <= hash_similarity_threshold
    /\ (IF timestamp >= recent[k].timestamp
          THEN timestamp - recent[k].timestamp
          ELSE recent[k].timestamp - timestamp) < recent_seconds

\* a window that drops the entry it was just given when it is full
add_recent_m(recent, frame_hash, timestamp) ==
  LET longer == Append(recent, [hash |-> frame_hash, timestamp |-> timestamp])
  IN IF Len(longer) > max_recent_hashes THEN recent ELSE longer

\* lines 331-333: the window with one more entry, the oldest dropped when
\* there are more than max_recent_hashes
add_recent(recent, frame_hash, timestamp) ==
  LET longer == Append(recent, [hash |-> frame_hash, timestamp |-> timestamp])
  IN IF Len(longer) > max_recent_hashes THEN Tail(longer) ELSE longer

\* a test that calls the text recognizer whenever there is a client
ocr_called_m(client, disabled) == client

\* line 177: the text recognizer is called only when OCR is not disabled
\* and the client was made
ocr_called(client, disabled) == ~ disabled /\ client

\* extract_ocr_text: what it leaves in ocr_error_count and ocr_disabled and
\* the text it returns, for a call that is not made ("not_called": no
\* client, or OCR disabled), that succeeds ("text"), that fails with a
\* credential error ("credential") or with any other error ("other")
extract_ocr_text(ocr, count, disabled) ==
  IF ocr = "not_called" THEN [count |-> count, disabled |-> disabled, text |-> << >>]
  ELSE IF ocr = "text"
    THEN [count |-> 0, disabled |-> disabled, text |-> << "a", "b", "c", "d", "e" >>]
  ELSE IF ocr = "credential"
    THEN [count |-> count + 1,
          disabled |-> disabled \/ count + 1 >= max_ocr_errors,
          text |-> << >>]
  ELSE [count |-> count + 1, disabled |-> disabled, text |-> << >>]

\* get_clip_embedding: None, kept as << >>, without a model ("no_model") or
\* when the model raises ("error")
get_clip_embedding(clip) == IF clip = "ok" THEN << 1, 0 >> ELSE << >>

\* a fingerprint_frame that raises when OCR or the embedding failed
fingerprint_frame_m(timestamp, frame_path, raises, ocr, clip, count, disabled) ==
  IF raises \/ ocr \in { "credential", "other" } \/ clip = "error" THEN << >>
  ELSE LET ocr_text == extract_ocr_text(ocr, count, disabled).text
       IN << [embedding |-> get_clip_embedding(clip),
              text_hash |-> IF ocr_text # << >> THEN "h1" ELSE "",
              ocr_text |-> ocr_text,
              timestamp |-> timestamp,
              frame_path |-> frame_path] >>

\* fingerprint_frame: << >> when it raises, else the SlideFingerprint
fingerprint_frame(timestamp, frame_path, raises, ocr, clip, count, disabled) ==
  IF raises THEN << >>
  ELSE LET ocr_text == extract_ocr_text(ocr, count, disabled).text
       IN << [embedding |-> get_clip_embedding(clip),
              text_hash |-> IF ocr_text # << >> THEN "h1" ELSE "",
              ocr_text |-> ocr_text,
              timestamp |-> timestamp,
              frame_path |-> frame_path] >>

(* The frames fingerprint_frames is given *)

MaxFramesGiven == 4

\* sixteen hexadecimal digits, the last ones given
hex16(last_digits) == [k \in 1..(16 - Len(last_digits)) |-> 0] \o last_digits

\* perceptual hashes: one, one that differs from it in 2 bits of one digit,
\* one that differs in 8 bits of two digits, one that differs in 5 bits of
\* five digits, and none
FrameHashes ==
  { hex16(<< 0 >>), hex16(<< 3 >>), hex16(<< 15, 15 >>), hex16(<< 1, 1, 1, 1, 1 >>), << >> }

\* the time from one frame to the next: 1.0 s or 10.0 s
TimeSteps == { 10, 100 }

FingerprintInit ==
  /\ jobs_db = << >>
  /\ workers = [t \in Threads |-> NoWorker]
  /\ results_files = << >>
  /\ NoExtraction
  /\ NoRemoteCalls
  /\ fingerprints = << >>
  /\ unique_slides = << >>
  /\ slide_groups = << >>
  /\ similar = << >>
  /\ cosine = << >>
  /\ appearances = << >>
  /\ merged = << >>
  /\ \/ /\ use_fast_prefilter = TRUE
        /\ rekognition_client = FALSE
        /\ clip_model = FALSE
     \/ /\ use_fast_prefilter = FALSE
        /\ rekognition_client = TRUE
        /\ clip_model \in BOOLEAN
  /\ recent_hashes = << >>
  /\ ocr_error_count = 0
  /\ ocr_disabled = FALSE
  /\ frame_log = << >>

\* a list that gets a fingerprint for a skipped frame as well
append_fingerprint_m(fps, skipped, fingerprint) == fps \o fingerprint

\* lines 325-337: the list of fingerprints after one frame; a skipped frame
\* leaves it as it is (continue), a frame for which fingerprint_frame raised
\* (fingerprint = << >>) as well, any other frame adds its fingerprint
append_fingerprint(fps, skipped, fingerprint) ==
  IF skipped THEN fps ELSE fps \o fingerprint

\* one turn of the loop of fingerprint_frames (lines 308-345) for the next
\* frame of the list: the frame comes step after the one before it, its
\* perceptual hash is frame_hash, fingerprint_frame raises or not, and the
\* OCR call and the embedding end as ocr and clip say
fingerprint_frames_turn(step, frame_hash, raises, ocr, clip) ==
  LET timestamp == IF frame_log = << >> THEN 0
                   ELSE frame_log[Len(frame_log)].timestamp + step
      frame_path == Len(frame_log)
      skipped == frame_hash # << >> /\ should_skip(frame_hash, timestamp, recent_hashes)
      called == ~ skipped /\ ~ raises
      after_ocr == extract_ocr_text(ocr, ocr_error_count, ocr_disabled)
      fingerprint == fingerprint_frame(timestamp, frame_path, raises, ocr, clip,
                                       ocr_error_count, ocr_disabled)
  IN \* what is not reached is not drawn
     /\ skipped => ~ raises
     /\ ~ called => (ocr \in { "not_called", "text" } /\ clip \in { "no_model", "ok" })
     /\ recent_hashes' = IF frame_hash # << >> /\ ~ skipped
                           THEN add_recent(recent_hashes, frame_hash, timestamp)
                           ELSE recent_hashes
     /\ ocr_error_count' = IF called THEN after_ocr.count ELSE ocr_error_count
     /\ ocr_disabled' = IF called THEN after_ocr.disabled ELSE ocr_disabled
     /\ fingerprints' = append_fingerprint(fingerprints, skipped, fingerprint)
     /\ frame_log' =
          Append(frame_log,
                 [timestamp |-> timestamp, frame_hash |-> frame_hash,
                  ocr |-> IF called THEN ocr ELSE "not_called",
                  clip |-> IF called THEN clip ELSE "not_called",
                  outcome |-> IF skipped THEN "skipped"
                              ELSE IF raises THEN "failed" ELSE "fingerprinted"])
     /\ UNCHANGED << remote_vars, pipeline_vars, extract_vars, use_fast_prefilter, rekognition_client,
                     clip_model, unique_slides, slide_groups, similar, cosine, appearances,
                     merged >>

\* fingerprint_frames goes on to the next frame of a list of MaxFramesGiven
FingerprintFrame ==
  /\ Len(frame_log) < MaxFramesGiven
  /\ \E step \in TimeSteps :
     \E frame_hash \in (IF use_fast_prefilter THEN FrameHashes ELSE { << >> }) :
     \E raises \in BOOLEAN :
     \E ocr \in (IF ocr_called(rekognition_client, ocr_disabled)
                   THEN { "text", "credential", "other" } ELSE { "not_called" }) :
     \E clip \in (IF clip_model THEN { "ok", "error" } ELSE { "no_model" }) :
       fingerprint_frames_turn(step, frame_hash, raises, ocr, clip)

FingerprintNext == FingerprintFrame

FingerprintSpec == FingerprintInit /\ [][FingerprintNext]_vars

(* A list long enough to fill the window of fingerprint_frames *)

MaxFramesListed == 12

\* the pre-filter is on; neither the OCR client nor the CLIP model is there
WindowInit == FingerprintInit /\ use_fast_prefilter = TRUE

\* fingerprint_frames goes on to the next frame of a list of MaxFramesListed
\* frames that all show the same picture, 1.0 s or 10.0 s after one another
FingerprintListedFrame ==
  /\ Len(frame_log) < MaxFramesListed
  /\ \E step \in TimeSteps :
       fingerprint_frames_turn(step, hex16(<< 0 >>), FALSE, "not_called", "no_model")

WindowNext == FingerprintListedFrame

WindowSpec == WindowInit /\ [][WindowNext]_vars

(* SceneDetector.detect_scenes (app/services/scene_detector.py), called on  *)
(* its own. A time is a number of seconds.                                  *)

\* max_wait
max_wait == 300

\* time.sleep(5); wait_time += 5
poll_interval == 5

\* a detect_scenes that lets the exception of detect_scenes_s3 through
detect_scenes_m(error) ==
  IF error = NONE THEN << "remote" >> ELSE << "raised" >>

\* detect_scenes, lines 176-183: the boundaries of detect_scenes_s3 when it
\* returned, those of the local fallback when it raised error
detect_scenes(error) ==
  IF error = NONE THEN << "remote" >> ELSE << "local" >>

SceneInit ==
  /\ jobs_db = << >>
  /\ workers = [t \in Threads |-> NoWorker]
  /\ results_files = << >>
  /\ NoExtraction
  /\ NoFingerprinting
  /\ fingerprints = << >>
  /\ unique_slides = << >>
  /\ slide_groups = << >>
  /\ similar = << >>
  /\ cosine = << >>
  /\ appearances = << >>
  /\ merged = << >>
  /\ s3_key \in { NONE, "uploads/video.mp4" }
  /\ wait_time = 0
  /\ job_status = NONE
  /\ detect_error = NONE
  /\ boundaries = << >>
  /\ invoked_by = NONE
  /\ attempts = << >>
  /\ returned = << >>

\* lines 176 and 183: without an s3_key detect_scenes goes to the local
\* fallback at once
DetectScenesLocally ==
  /\ s3_key = NONE
  /\ boundaries = << >>
  /\ boundaries' = << "local" >>
  /\ UNCHANGED << pipeline_vars, dedup_vars, extract_vars, fingerprint_vars, s3_key,
                  wait_time, job_status, detect_error, invoked_by, attempts, returned >>

\* lines 50-60: start_segment_detection starts the remote job, or raises a
\* ClientError, which ends detect_scenes_s3 (lines 100-101)
StartSegmentDetection ==
  /\ s3_key # NONE
  /\ job_status = NONE
  /\ detect_error = NONE
  /\ \E started \in BOOLEAN :
       IF started
         THEN /\ job_status' = "IN_PROGRESS"
              /\ UNCHANGED << detect_error, boundaries >>
         ELSE /\ detect_error' = "AWS Rekognition error"
              /\ boundaries' = detect_scenes(detect_error')
              /\ UNCHANGED job_status
  /\ UNCHANGED << pipeline_vars, dedup_vars, extract_vars, fingerprint_vars, s3_key,
                  wait_time, invoked_by, attempts, returned >>

\* lines 66-98: one turn of the loop that waits for the remote job, and what
\* follows it when the turn is the last one
GetSegmentDetection ==
  /\ job_status = "IN_PROGRESS"
  /\ boundaries = << >>
  /\ wait_time < max_wait
  /\ \E status \in { "IN_PROGRESS", "SUCCEEDED", "FAILED", "ClientError" } :
       /\ job_status' = IF status = "ClientError" THEN job_status ELSE status
       /\ wait_time' = IF status = "IN_PROGRESS" THEN wait_time + poll_interval
                       ELSE wait_time
       /\ detect_error' =
            IF status = "FAILED" THEN "Segment detection failed"
            ELSE IF status = "ClientError" THEN "AWS Rekognition error"
            ELSE IF status = "IN_PROGRESS" /\ wait_time' >= max_wait
              THEN "Segment detection timed out"
            ELSE NONE
       /\ boundaries' = IF status = "IN_PROGRESS" /\ wait_time' < max_wait THEN << >>
                        ELSE detect_scenes(detect_error')
  /\ UNCHANGED << pipeline_vars, dedup_vars, extract_vars, fingerprint_vars, s3_key,
                  invoked_by, attempts, returned >>

SceneNext ==
  \/ DetectScenesLocally
  \/ StartSegmentDetection
  \/ GetSegmentDetection

SceneSpec == SceneInit /\ [][SceneNext]_vars

(* The Summarizer's calls of invoke_model (app/services/summarizer.py)       *)

\* model_ids_to_try, the configured identifier first
model_ids_to_try ==
  << "settings.bedrock_model_id",
     "anthropic.claude-3-5-sonnet-v2:0",
     "anthropic.claude-3-5-sonnet-v1:0",
     "anthropic.claude-3-sonnet-20240229-v1:0",
     "us.anthropic.claude-3-5-sonnet-v1:0",
     "anthropic.claude-3-5-sonnet-20241022-v2:0" >>

\* how a call of invoke_model ends: with a response, with a ClientError
\* whose code is ExpiredTokenException, with a ValidationException that
\* speaks of an invalid identifier or an inference profile, with any other
\* ClientError, or with an exception that is no ClientError
InvokeOutcomes ==
  { "ok", "ExpiredTokenException", "ValidationException", "ClientError", "Exception" }

\* how the second call of one turn ends; "none" when there is no second call
RetryOutcomes == { "none", "ok", "ClientError", "Exception" }

\* a loop that goes on to the next identifier after every error
after_invoke_m(function, first, retry) ==
  IF first = "ok" \/ retry = "ok" THEN "break" ELSE "continue"

\* what one turn of the loop over model_ids_to_try does once invoke_model
\* has answered: generate_summary, lines 481-649, and generate_slide_summary,
\* lines 197-210
after_invoke(function, first, retry) ==
  IF first = "ok" THEN "break"
  ELSE IF function = "generate_summary"
    THEN IF first = "ExpiredTokenException"
           THEN IF retry = "ok" THEN "break"
                ELSE IF retry = "ClientError" THEN "continue"
                ELSE "raise"
         ELSE IF first \in { "ValidationException", "Exception" } THEN "continue"
         ELSE "raise"
  ELSE IF first = "ValidationException" THEN "continue"
  ELSE "raise"

\* how the function ends when the loop is left with a response: with the
\* summary made of it, or as for a failure when nothing can be made of it
\* (lines 658-684 and 218-224)
with_response(function, parsed) ==
  IF function = "generate_summary"
    THEN IF parsed THEN << "summary" >> ELSE << "raised" >>
    ELSE IF parsed THEN << "text" >> ELSE << "None" >>

\* how the function ends without a response: generate_summary raises a
\* RuntimeError (lines 652-656, 683-721), generate_slide_summary returns
\* None (lines 212-216, 226-228)
without_response(function) ==
  IF function = "generate_summary" THEN << "raised" >> ELSE << "None" >>

SummaryInit ==
  /\ jobs_db = << >>
  /\ workers = [t \in Threads |-> NoWorker]
  /\ results_files = << >>
  /\ NoExtraction
  /\ NoFingerprinting
  /\ fingerprints = << >>
  /\ unique_slides = << >>
  /\ slide_groups = << >>
  /\ similar = << >>
  /\ cosine = << >>
  /\ appearances = << >>
  /\ merged = << >>
  /\ s3_key = NONE
  /\ wait_time = 0
  /\ job_status = NONE
  /\ detect_error = NONE
  /\ boundaries = << >>
  /\ invoked_by \in { "generate_summary", "generate_slide_summary" }
  /\ attempts = << >>
  /\ returned = << >>

\* one turn of the loop over model_ids_to_try, and the end of the function
\* when the turn is the last one
InvokeModel ==
  /\ invoked_by # NONE
  /\ returned = << >>
  /\ Len(attempts) < Len(model_ids_to_try)
  /\ \E first \in InvokeOutcomes : \E retry \in RetryOutcomes : \E parsed \in BOOLEAN :
       LET step == after_invoke(invoked_by, first, retry)
       IN /\ (retry # "none") <=>
               (invoked_by = "generate_summary" /\ first = "ExpiredTokenException")
          /\ step # "break" => parsed
          /\ attempts' = Append(attempts,
                                [model_id |-> model_ids_to_try[Len(attempts) + 1],
                                 first |-> first, retry |-> retry])
          /\ returned' =
               IF step = "break" THEN with_response(invoked_by, parsed)
               ELSE IF step = "raise" \/ Len(attempts') = Len(model_ids_to_try)
                 THEN without_response(invoked_by)
               ELSE << >>
  /\ UNCHANGED << pipeline_vars, dedup_vars, extract_vars, fingerprint_vars, s3_key,
                  wait_time, job_status, detect_error, boundaries, invoked_by >>

SummaryNext == InvokeModel

SummarySpec == SummaryInit /\ [][SummaryNext]_vars

-----------------------------------------------------------------------------
(* Specification *)

Init ==
  /\ jobs_db = << >>
  /\ workers = [t \in Threads |-> NoWorker]
  /\ results_files = << >>
  /\ fingerprints = << >>
  /\ unique_slides = << >>
  /\ slide_groups = << >>
  /\ similar = << >>
  /\ cosine = << >>
  /\ appearances = << >>
  /\ merged = << >>
  /\ NoExtraction
  /\ NoFingerprinting
  /\ NoRemoteCalls

Next ==
  \/ upload_video
  \/ \E job_id \in Jobs : resume_processing(job_id)
  \/ \E job_id \in Jobs : get_processing_status(job_id)
  \/ \E job_id \in Jobs : get_results(job_id)
  \/ \E job_id \in Jobs : StartProcessing(job_id)
  \/ \E i \in Threads : Initializing(i)
  \/ \E i \in Threads : ExtractAudioBegin(i)
  \/ \E i \in Threads : ExtractAudio(i)
  \/ \E i \in Threads : DetectScenesBegin(i)
  \/ \E i \in Threads : DetectScenes(i)
  \/ \E i \in Threads : ExtractFramesBegin(i)
  \/ \E i \in Threads : ExtractFramesScenes(i)
  \/ \E i \in Threads : ExtractFramesPeriodic(i)
  \/ \E i \in Threads : ExtractFramesEnd(i)
  \/ \E i \in Threads : FingerprintBegin(i)
  \/ \E i \in Threads : Fingerprint(i)
  \/ \E i \in Threads : DeduplicateBegin(i)
  \/ \E i \in Threads : Deduplicate(i)
  \/ \E i \in Threads : Transcribe(i)
  \/ \E i \in Threads : GenerateSummary(i)
  \/ \E i \in Threads : SaveBegin(i)
  \/ \E i \in Threads : OpenResultsFile(i)
  \/ \E i \in Threads : SaveResults(i)
  \/ \E i \in Threads : Finish(i)

Spec == Init /\ [][Next]_vars

-----------------------------------------------------------------------------
(* Properties: job status *)

C2_SubmitStartsWorker ==
  \A j \in DOMAIN jobs_db : \E t \in Threads : workers[t].job = j

-----------------------------------------------------------------------------
(* Properties: the job snapshot *)

\* C3, as stated: in every snapshot that carries the stage list,
\* current_step is the name of the first stage that is in_progress, and
\* null when none is
C3_CurrentStepIsFirstInProgress ==
  \A j \in DOMAIN jobs_db :
    jobs_db[j].steps # << >>
      => jobs_db[j].current_step = current_step_name(jobs_db[j].steps)

-----------------------------------------------------------------------------
(* Properties: failures *)

\* C5, as stated: the step in which a stage's exception ends process_video
\* leaves the job with status Error and the exception's message as its
\* error, and the thread takes no step afterwards
C5_ExceptionRecorded ==
  [][\A t \in Threads :
       /\ workers[t].pc = "failed" => workers'[t] = workers[t]
       /\ workers[t].pc # "failed" /\ workers'[t].pc = "failed"
            /\ workers[t].job \in DOMAIN jobs_db
          => /\ jobs_db'[workers[t].job].status = ERROR
             /\ jobs_db'[workers[t].job].error = workers'[t].error_msg]_vars

\* C6, as stated: an execution whose video exists but is unreadable (no
\* duration, no audio stream, no frame) never comes to the completion write:
\* it ends in the error handler
C6_CorruptVideoFails ==
  \A t \in Threads : workers[t].video = "corrupt" => workers[t].pc # "done"

-----------------------------------------------------------------------------
(* Properties: writers of the job record *)

\* C7, as stated: an existing record changes only in a step of a worker
\* thread of that job, and no two threads run process_video for one job id
\* at the same time
C7_SingleWriter ==
  [][/\ \A j \in DOMAIN jobs_db :
          jobs_db'[j] # jobs_db[j]
            => \E t \in Threads : workers[t].job = j /\ workers'[t] # workers[t]
     /\ \A t, u \in Threads :
          /\ t # u
          /\ workers'[t].pc \notin {"none", "done", "failed"}
          /\ workers'[u].pc \notin {"none", "done", "failed"}
          => workers'[t].job # workers'[u].job]_vars

\* C8, as stated: the step in which resume_processing puts an existing job
\* back to Queued starts a fresh execution for it, at stage 1 with every
\* stage at its initial state
C8_ResumeRestarts ==
  [][\A j \in DOMAIN jobs_db :
       jobs_db[j].status # QUEUED /\ jobs_db'[j].status = QUEUED
         => \E t \in Threads :
              /\ workers[t].pc = "none"
              /\ workers'[t].job = j
              /\ workers'[t].pc = "init"
              /\ workers'[t].all_steps = InitialSteps]_vars

-----------------------------------------------------------------------------
(* Properties: results *)

\* C9: get_results answers with the persisted results only for a stored job
\* whose status is Complete (and whose results file exists); for a job that
\* is Queued, Processing or Error it answers 400 without results, even when
\* a results file of an earlier run exists; for an unknown job id it
\* answers 404
C9_ResultsOnlyWhenComplete ==
  \A j \in Jobs :
    LET answer == load_results_data(jobs_db, results_files, j)
    IN /\ j \notin DOMAIN jobs_db => answer.code = 404 /\ ~ answer.results
       /\ j \in DOMAIN jobs_db /\ jobs_db[j].status # COMPLETE
            => answer.code = 400 /\ ~ answer.results
       /\ answer.results <=> answer.code = 200
       /\ answer.results
            => /\ j \in DOMAIN jobs_db
               /\ jobs_db[j].status = COMPLETE
               /\ j \in DOMAIN results_files
               /\ results_files[j] = "full"

\* a job that completed, left its results file and is not Complete now
C9_StaleResultsFile ==
  \E j \in DOMAIN jobs_db :
    /\ j \in DOMAIN results_files
    /\ jobs_db[j].status \in {QUEUED, PROCESSING, ERROR}
    /\ \E t \in Threads : workers[t].job = j /\ workers[t].pc = "done"

C11_ResultsWrittenOnce ==
  /\ [](\A j \in DOMAIN results_files :
          \E t \in Threads :
            /\ workers[t].job = j
            /\ \/ workers[t].pc = "save_write"
               \/ workers[t].pc \in {"finish", "done"} /\ results_files[j] = "full")
  /\ [](\A j \in DOMAIN jobs_db :
          jobs_db[j].status = COMPLETE
            => j \in DOMAIN results_files /\ results_files[j] = "full")
  /\ [][\A t \in Threads :
          workers[t].pc = "save_run" /\ workers'[t].pc = "save_write"
            => workers[t].job \notin DOMAIN results_files]_vars

-----------------------------------------------------------------------------
(* Properties: optional stages *)

\* C12: an execution whose video has no audio track (extract_audio returned
\* None) sets the Transcribe stage to 100 with the detail "Skipped (no
\* audio)" and goes on without calling the transcriber, builds the
\* placeholder summary without calling the summarizer, and sets the job
\* Complete at its end, with an empty transcript and the placeholder summary
C12_NoAudioCompletes ==
  [][\A t \in Threads :
       ~ workers[t].audio_path /\ workers'[t] # workers[t]
       =>
       /\ workers[t].pc = "transcribe"
            => /\ workers'[t].pc = "summary"
               /\ workers'[t].transcript = << >>
               /\ workers'[t].all_steps[7] =
                    [name |-> "Transcribing audio", progress |-> 100,
                     status |-> "complete", details |-> "Skipped (no audio)"]
       /\ workers[t].pc = "summary"
            => /\ workers'[t].pc = "save_begin"
               /\ workers'[t].summary = NoAudioSummary
               /\ workers'[t].all_steps[8].status = "complete"
               /\ workers'[t].all_steps[8].progress = 100
       /\ workers[t].pc = "finish"
            => /\ workers'[t].pc = "done"
               /\ workers[t].transcript = << >>
               /\ workers[t].summary = NoAudioSummary
               /\ workers[t].job \in DOMAIN jobs_db
                    => jobs_db'[workers[t].job].status = COMPLETE]_vars

\* a job set Complete whose Transcribe stage was skipped for want of audio
C12_CompleteWithoutAudio ==
  \E j \in DOMAIN jobs_db :
    /\ jobs_db[j].status = COMPLETE
    /\ jobs_db[j].steps[7].details = "Skipped (no audio)"
    /\ jobs_db[j].steps[8].details = "Placeholder summary created"

\* C13: a transcriber that could not be created makes the Transcribe stage
\* complete at 100 with an empty transcript, a summarizer that could not be
\* created makes the Summary stage complete at 100 with a placeholder
\* summary; neither ends the execution in the error handler
C13_UnavailableBackendCompletes ==
  [][\A t \in Threads :
       /\ workers[t].pc = "transcribe" /\ workers'[t] # workers[t] /\ ~ transcriber
            => /\ workers'[t].pc = "summary"
               /\ workers'[t].transcript = << >>
               /\ workers'[t].all_steps[7].status = "complete"
               /\ workers'[t].all_steps[7].progress = 100
               /\ workers[t].job \in DOMAIN jobs_db
                    => jobs_db'[workers[t].job].status = PROCESSING
       /\ workers[t].pc = "summary" /\ workers'[t] # workers[t]
            => /\ workers'[t].pc # "failed"
               /\ ~ workers'[t].summarizer
                    => /\ workers'[t].pc = "save_begin"
                       /\ workers'[t].summary \in {NoAudioSummary, UnavailableSummary}
                       /\ workers'[t].all_steps[8].status = "complete"
                       /\ workers'[t].all_steps[8].progress = 100
                       /\ workers[t].job \in DOMAIN jobs_db
                            => jobs_db'[workers[t].job].status = PROCESSING]_vars

\* a job set Complete for a video with audio, by an execution without a
\* transcriber, while a second execution without a summarizer has its
\* placeholder summary
C13_CompleteWithoutBackends ==
  /\ \E j \in DOMAIN jobs_db :
       /\ jobs_db[j].status = COMPLETE
       /\ jobs_db[j].steps[7].details = "Skipped (transcriber unavailable)"
  /\ \E t \in Threads :
       /\ workers[t].pc = "save_begin"
       /\ workers[t].audio_path
       /\ ~ workers[t].summarizer
       /\ workers[t].summary = NoAudioSummary

\* C14: in deduplicate_slides a fingerprint joins the group of the
\* lowest-index founder before it that are_slides_similar to it, and founds
\* its own group when there is none; members that are not founders decide
\* nothing.
C14_FounderDecidesMembership ==
  slide_groups # << >> =>
    LET groups == slide_groups[1]
        founders == {groups[g][1] : g \in DOMAIN groups}
    IN \A j \in 1..Len(fingerprints) :
         LET candidates == {i \in founders : i < j /\ are_slides_similar(fingerprints[i], fingerprints[j])}
             founder == IF candidates = {} THEN j
                        ELSE CHOOSE i \in candidates : \A o \in candidates : i <= o
         IN \E g \in DOMAIN groups :
              /\ groups[g][1] = founder
              /\ \E k \in DOMAIN groups[g] : groups[g][k] = j

\* fp0~fp1 and fp1~fp2 but not fp0~fp2: fp2 was put in a group of its own
C14_ChainNotJoined ==
  /\ Len(fingerprints) = 3
  /\ are_slides_similar(fingerprints[1], fingerprints[2])
  /\ are_slides_similar(fingerprints[2], fingerprints[3])
  /\ ~ are_slides_similar(fingerprints[1], fingerprints[3])
  /\ slide_groups = << << << 1, 2 >>, << 3 >> >> >>


\* C15: deduplicate_slides partitions its input: every position of the list
\* is in exactly one group, exactly once, no group holds anything else, and
\* one UniqueSlide is returned for each group.
C15_GroupsPartitionInput ==
  slide_groups # << >> =>
    LET groups == slide_groups[1]
    IN /\ \A j \in 1..Len(fingerprints) :
            Cardinality({ place \in (DOMAIN groups) \X (1..Len(fingerprints)) :
                            /\ place[2] \in DOMAIN groups[place[1]]
                            /\ groups[place[1]][place[2]] = j }) = 1
       /\ \A g \in DOMAIN groups : \A k \in DOMAIN groups[g] :
            groups[g][k] \in 1..Len(fingerprints)
       /\ \A g \in DOMAIN groups : groups[g] # << >>
       /\ Len(unique_slides[1]) = Len(groups)

\* three fingerprints were put in two groups, the first and the last together
C15_TwoGroupsOfThree ==
  /\ Len(fingerprints) = 3
  /\ slide_groups = << << << 1, 3 >>, << 2 >> >> >>
  /\ unique_slides # << >>
  /\ Len(unique_slides[1]) = 2

\* C16: are_slides_similar answers True whenever both fingerprints have a
\* non-empty text_hash and the two are equal, whatever the embeddings and
\* the OCR texts are.
C16_EqualHashIsSimilar ==
  (/\ similar # << >>
   /\ fingerprints[1].text_hash # ""
   /\ fingerprints[1].text_hash = fingerprints[2].text_hash)
    => similar[1] = TRUE

\* True was answered for equal hashes although both embeddings are there
\* and too far apart, and the texts too different
C16_EqualHashDissimilarRest ==
  /\ similar = << TRUE >>
  /\ fingerprints[1].text_hash = "h1" /\ fingerprints[2].text_hash = "h1"
  /\ fingerprints[1].embedding # << >> /\ fingerprints[2].embedding # << >>
  /\ ~ clip_similar(cosine_similarity(fingerprints[1].embedding, fingerprints[2].embedding),
                    clip_threshold)
  /\ fingerprints[1].ocr_text # << >> /\ fingerprints[2].ocr_text # << >>
  /\ ~ text_similar(text_similarity(fingerprints[1].ocr_text, fingerprints[2].ocr_text),
                    text_threshold)

\* C17: cosine_similarity returns 0 when an embedding is empty or has norm
\* zero, and are_slides_similar then answers True for the equal-hash rule or
\* the text rule only, never for the embeddings.
C17_ZeroCosineNeverSimilar ==
  LET e1 == fingerprints[1].embedding
      e2 == fingerprints[2].embedding
      f1 == fingerprints[1]
      f2 == fingerprints[2]
  IN (/\ Len(fingerprints) = 2
      /\ \/ e1 = << >> \/ e2 = << >>
         \/ \A k \in DOMAIN e1 : e1[k] = 0
         \/ \A k \in DOMAIN e2 : e2[k] = 0)
       => /\ cosine # << >> => cosine[1].dot = 0
          /\ similar # << >> =>
               similar[1] =
                 \/ f1.text_hash # "" /\ f1.text_hash = f2.text_hash
                 \/ /\ f1.ocr_text # << >> /\ f2.ocr_text # << >>
                    /\ text_similar(text_similarity(f1.ocr_text, f2.ocr_text), text_threshold)

\* both functions were called on two zero vectors with nothing else in
\* common: 0 and False
C17_ZeroVectorsCompared ==
  /\ Len(fingerprints) = 2
  /\ fingerprints[1].embedding = << 0, 0 >> /\ fingerprints[2].embedding = << 0, 0 >>
  /\ fingerprints[1].text_hash # fingerprints[2].text_hash
  /\ cosine = << zero_similarity >>
  /\ similar = << FALSE >>

\* C18: what _merge_appearances returns for any list, and the appearances
\* of every UniqueSlide, are sorted by start with more than the 1.0 s
\* tolerance between the end of one and the start of the next; every given
\* appearance lies within one returned appearance, which starts where one
\* of them starts, ends at the largest of their ends, and holds a later
\* start only when it is within the tolerance of the end of an earlier one.
C18_AppearancesMerged ==
  LET covers(o, a) == o.start <= a.start /\ a.end <= o.end
      is_merge_of(given, out) ==
        /\ \A k \in 1..(Len(out) - 1) :
             /\ out[k].start <= out[k + 1].start
             /\ out[k + 1].start > out[k].end + gap_tolerance
        /\ \A k \in DOMAIN given : \E n \in DOMAIN out : covers(out[n], given[k])
        /\ \A n \in DOMAIN out :
             /\ \E k \in DOMAIN given : given[k].start = out[n].start
             /\ \E k \in DOMAIN given : covers(out[n], given[k]) /\ given[k].end = out[n].end
             /\ \A k \in DOMAIN given :
                  (covers(out[n], given[k]) /\ given[k].start > out[n].start) =>
                    \E b \in DOMAIN given :
                      /\ covers(out[n], given[b])
                      /\ given[b].start < given[k].start
                      /\ given[k].start <= given[b].end + gap_tolerance
  IN /\ merged # << >> => is_merge_of(appearances, merged[1])
     /\ (unique_slides # << >> /\ slide_groups # << >>) =>
          \A g \in DOMAIN unique_slides[1] :
            is_merge_of([k \in DOMAIN slide_groups[1][g] |->
                           [start |-> fingerprints[slide_groups[1][g][k]].timestamp,
                            end |-> fingerprints[slide_groups[1][g][k]].timestamp
                                      + appearance_duration]],
                        unique_slides[1][g].appearances)

\* [(0,4), (4.5,6), (20,22)] was merged into [(0,6), (20,22)]
C18_ExampleMerged ==
  /\ appearances = << [start |-> 0, end |-> 40], [start |-> 45, end |-> 60],
                      [start |-> 200, end |-> 220] >>
  /\ merged = << << [start |-> 0, end |-> 60], [start |-> 200, end |-> 220] >> >>

\* C19: _merge_appearances is idempotent: a list that is already sorted by
\* start with more than the tolerance between one end and the next start is
\* returned unchanged, and so is whatever _merge_appearances returned.
C19_MergeIdempotent ==
  merged # << >> =>
    /\ (\A k \in 1..(Len(appearances) - 1) :
          /\ appearances[k].start <= appearances[k + 1].start
          /\ appearances[k + 1].start > appearances[k].end + gap_tolerance)
         => merged[1] = appearances
    /\ merge_appearances(merged[1]) = merged[1]

\* three appearances already apart, the second just beyond the tolerance,
\* came back as they were
C19_MergedListUnchanged ==
  /\ appearances = << [start |-> 0, end |-> 40], [start |-> 51, end |-> 60],
                      [start |-> 200, end |-> 220] >>
  /\ merged = << appearances >>

C24_RoundedTimestampsUnique ==
  unique_frames # << >> =>
    LET frames == unique_frames[1]
        collected == all_frames[1]
    IN /\ \A a \in DOMAIN frames : \A b \in DOMAIN frames :
            a # b => round_tenths(frames[a].timestamp) # round_tenths(frames[b].timestamp)
       /\ \A a \in DOMAIN frames : \A c \in DOMAIN collected :
            round_tenths(collected[c].timestamp) = round_tenths(frames[a].timestamp)
              => frames[a].frame_number <= collected[c].frame_number
       /\ \A c \in DOMAIN collected : \E a \in DOMAIN frames :
            round_tenths(collected[c].timestamp) = round_tenths(frames[a].timestamp)

\* a scene frame and a periodic frame were both taken at 0.0 s and the scene
\* frame, frame number 0, is the one returned
C24_SceneFrameKept ==
  /\ unique_frames # << >>
  /\ scene_boundaries = << 0 >>
  /\ failed_calls = {}
  /\ Len(all_frames[1]) = Len(unique_frames[1]) + 1
  /\ unique_frames[1][1].frame_number = 0
  /\ unique_frames[1][1].timestamp = 0

\* C25 as stated: two frames whose timestamps lie in the same 0.1 s bucket,
\* such as 12.02 s and 12.07 s, are never both returned.
C25_SameBucketOneSurvives ==
  unique_frames # << >> =>
    \A a \in DOMAIN unique_frames[1] : \A b \in DOMAIN unique_frames[1] :
      a # b => unique_frames[1][a].timestamp \div 10 # unique_frames[1][b].timestamp \div 10

\* C25, amended: extract_frames rounds to the nearest tenth of a second: a
\* collected frame is returned exactly when no frame collected before it is
\* nearest to the same tenth, so of 12.02 s and 12.04 s one is returned,
\* and 12.02 s and 12.07 s (12.0 and 12.1) are both returned.
C25_NearestTenthOneSurvives ==
  unique_frames # << >> =>
    LET frames == unique_frames[1]
        collected == all_frames[1]
        nearest(t) == (t + 5) \div 10
    IN \A c \in DOMAIN collected :
         (\E a \in DOMAIN frames : frames[a] = collected[c])
           <=> ~ \E b \in 1..(c - 1) :
                   nearest(collected[b].timestamp) = nearest(collected[c].timestamp)

\* frames were taken at 12.02 s and 12.07 s and both were returned
C25_BothReturned ==
  /\ unique_frames # << >>
  /\ scene_boundaries = << 1202, 1207 >>
  /\ failed_calls = {}
  /\ \E a \in DOMAIN unique_frames[1] : unique_frames[1][a].timestamp = 1202
  /\ \E a \in DOMAIN unique_frames[1] : unique_frames[1][a].timestamp = 1207

C27_FramesInTimeOrder ==
  unique_frames # << >> =>
    \A k \in 1..(Len(unique_frames[1]) - 1) :
      unique_frames[1][k].timestamp <= unique_frames[1][k + 1].timestamp

\* C28: the image and the text of every UniqueSlide are those of the
\* fingerprint that founded its group, and no member of the group has a
\* smaller timestamp than the founder.
C28_FounderIsEarliest ==
  (unique_frames # << >> /\ unique_slides # << >>) =>
    \A g \in DOMAIN unique_slides[1] :
      LET indices == slide_groups[1][g]
      IN /\ unique_slides[1][g].image_url = fingerprints[indices[1]].frame_path
         /\ unique_slides[1][g].ocr_text = fingerprints[indices[1]].ocr_text
         /\ \A k \in DOMAIN indices :
              unique_frames[1][indices[1]].timestamp <= unique_frames[1][indices[k]].timestamp

\* C29: with skip_periodic_extraction set, every frame extract_frames
\* returns was taken at the start of a scene boundary.
C29_SkipMeansScenesOnly ==
  (unique_frames # << >> /\ skip_periodic_extraction) =>
    \A a \in DOMAIN unique_frames[1] :
      \E k \in DOMAIN scene_boundaries :
        scene_boundaries[k] = unique_frames[1][a].timestamp

\* C21: with the pre-filter on, a frame that has a hash is skipped if and
\* only if some entry of the window differs from its hash in at most 4 of
\* the 64 bits and has a timestamp less than 5 seconds from its own.
C21_SkippedIffCloseInBits ==
  [][(Len(frame_log') = Len(frame_log) + 1 /\ frame_log'[Len(frame_log')].frame_hash # << >>)
       => LET frame == frame_log'[Len(frame_log')]
              bit(digit, n) == (digit \div (2 ^ n)) % 2
              differing_bits(hash1, hash2) ==
                Cardinality({ place \in (1..16) \X (0..3) :
                                bit(hash1[place[1]], place[2]) # bit(hash2[place[1]], place[2]) })
              apart(t1, t2) == IF t1 >= t2 THEN t1 - t2 ELSE t2 - t1
          IN (frame.outcome = "skipped")
               <=> \E k \in DOMAIN recent_hashes :
                     /\ differing_bits(frame.frame_hash, recent_hashes[k].hash) <= 4
                     /\ apart(frame.timestamp, recent_hashes[k].timestamp) < 50]_vars

\* C22: OCR is disabled exactly when the last three calls of the text
\* recognizer all failed with a credential error; a failure of another kind
\* does not count towards the three.
C22_DisabledAfterThreeCredentialFailures ==
  LET calls == SelectSeq(frame_log, LAMBDA f : f.ocr # "not_called")
  IN ocr_disabled <=>
       /\ Len(calls) >= 3
       /\ \A k \in (Len(calls) - 2)..Len(calls) : calls[k].ocr = "credential"

\* C23 as stated: no fingerprint is emitted for a frame whose OCR call or
\* whose embedding call failed.
C23_NoPartialFingerprint ==
  \A k \in DOMAIN frame_log :
    (frame_log[k].ocr \in { "credential", "other" } \/ frame_log[k].clip = "error")
      => frame_log[k].outcome # "fingerprinted"

\* C23, amended: a failure inside the OCR call or inside the embedding call
\* is caught there, and the frame gets a fingerprint with that signal empty
\* (no text and no text_hash, or no embedding) and the other signal as it
\* came; a frame gets no fingerprint only when the pre-filter skips it or
\* fingerprint_frame itself raises, and the frames after it are gone through
\* all the same: the fingerprints are those of the frames neither skipped
\* nor failed, in their order.
C23_FailedSignalLeftEmpty ==
  LET emitted(k) == Cardinality({ m \in 1..k : frame_log[m].outcome = "fingerprinted" })
  IN /\ Len(fingerprints) = emitted(Len(frame_log))
     /\ \A k \in DOMAIN frame_log :
          frame_log[k].outcome = "fingerprinted" =>
            LET fingerprint == fingerprints[emitted(k)]
            IN /\ fingerprint.timestamp = frame_log[k].timestamp
               /\ (fingerprint.ocr_text # << >>) <=> (frame_log[k].ocr = "text")
               /\ (fingerprint.text_hash # "") <=> (frame_log[k].ocr = "text")
               /\ (fingerprint.embedding # << >>) <=> (frame_log[k].clip = "ok")
     /\ \A k \in DOMAIN frame_log :
          (frame_log[k].ocr \in { "credential", "other" } \/ frame_log[k].clip = "error")
            => frame_log[k].outcome = "fingerprinted"

\* a frame whose OCR call failed has a fingerprint with the embedding only,
\* the next, whose embedding failed, one with the text only, and the frame
\* after a frame that raised has one with both
C23_PartialFingerprints ==
  /\ Len(frame_log) = 3
  /\ \E a \in 1..3 : \E b \in 1..3 :
       /\ frame_log[a].outcome = "failed"
       /\ a < b
       /\ frame_log[b].ocr = "other" /\ frame_log[b].clip = "ok"
  /\ \E c \in 1..3 : frame_log[c].ocr = "text" /\ frame_log[c].clip = "error"
  /\ Len(fingerprints) = 2

\* C30: every entry of the window of recent hashes is the hash and the
\* timestamp of a frame that got a fingerprint.
C30_WindowHoldsFingerprintedFrames ==
  \A k \in DOMAIN recent_hashes :
    \E m \in DOMAIN frame_log :
      /\ frame_log[m].frame_hash = recent_hashes[k].hash
      /\ frame_log[m].timestamp = recent_hashes[k].timestamp
      /\ frame_log[m].outcome = "fingerprinted"

C32_OneFingerprintPerProcessedFrame ==
  LET with(outcome) == { k \in DOMAIN frame_log : frame_log[k].outcome = outcome }
      processed == ascending(with("fingerprinted"))
  IN /\ Len(fingerprints) + Cardinality(with("skipped")) + Cardinality(with("failed"))
          = Len(frame_log)
     /\ Len(fingerprints) = Len(processed)
     /\ \A k \in DOMAIN fingerprints :
          /\ fingerprints[k].frame_path = processed[k] - 1
          /\ fingerprints[k].timestamp = frame_log[processed[k]].timestamp

\* three frames went through: one was fingerprinted, the next was skipped,
\* the last failed
C32_OneOfEachOutcome ==
  /\ Len(frame_log) = 3
  /\ frame_log[1].outcome = "fingerprinted"
  /\ frame_log[2].outcome = "skipped"
  /\ frame_log[3].outcome = "failed"
  /\ Len(fingerprints) = 1

\* C33: once OCR is disabled it stays disabled: for every frame that goes
\* through afterwards the text recognizer is not called, and the
\* fingerprint of such a frame has an empty text and an empty text_hash.
C33_OcrStaysDisabled ==
  [][ ocr_disabled =>
        /\ ocr_disabled'
        /\ Len(frame_log') = Len(frame_log) + 1 =>
             /\ frame_log'[Len(frame_log')].ocr = "not_called"
             /\ Len(fingerprints') = Len(fingerprints) + 1 =>
                  /\ fingerprints'[Len(fingerprints')].ocr_text = << >>
                  /\ fingerprints'[Len(fingerprints')].text_hash = "" ]_vars

\* the third failure in a row, a credential failure, disabled OCR, and a
\* fourth frame was fingerprinted afterwards
C33_FingerprintedAfterDisabling ==
  /\ ocr_disabled
  /\ Len(frame_log) = 4
  /\ frame_log[1].ocr = "credential"
  /\ frame_log[2].ocr = "credential"
  /\ frame_log[3].ocr = "credential"
  /\ frame_log[4].outcome = "fingerprinted"
  /\ Len(fingerprints) = 4

\* C34: in the result of one deduplicate_slides the k-th slide is the slide
\* of the k-th group formed, the groups stand in the order in which their
\* founders come in the input, and the slide ids are slide_000, slide_001,
\* slide_002, ...: distinct and consecutive from 000.
C34_SlideIdsAreGroupOrdinals ==
  \A r \in DOMAIN unique_slides :
    LET slides == unique_slides[r]
        groups == slide_groups[r]
    IN /\ Len(slides) = Len(groups)
       /\ \A k \in DOMAIN slides :
            /\ slides[k].slide_id = [prefix |-> "slide_", digits |-> << 0, 0, k - 1 >>]
            /\ slides[k].image_url = fingerprints[groups[k][1]].frame_path
       /\ \A k \in DOMAIN groups : \A l \in DOMAIN groups :
            k < l => groups[k][1] < groups[l][1]
       /\ \A k \in DOMAIN slides : \A l \in DOMAIN slides :
            k # l => slides[k].slide_id # slides[l].slide_id

\* three fingerprints made three groups, hence three slides
C34_ThreeSlides ==
  /\ unique_slides # << >>
  /\ Len(unique_slides[1]) = 3
  /\ Len(slide_groups[1]) = 3

C37_FramesCarryClampedTime ==
  (unique_frames # << >> /\ duration > 0) =>
    \A k \in DOMAIN unique_frames[1] :
      /\ unique_frames[1][k].timestamp = seek_time(unique_frames[1][k].timestamp, duration)
      /\ unique_frames[1][k].timestamp < duration - 50

\* C38: from one step of an execution of process_video to the next, no
\* stage of its list loses progress, the sum of the stage progresses (hence
\* the overall progress it writes) does not decrease, and a stage that is
\* complete stays complete.
C38_ProgressNeverDecreases ==
  [][ workers' # workers =>
        \A i \in Threads :
          LET before == workers[i].all_steps
              after == workers'[i].all_steps
          IN (after # before /\ before # << >> /\ after # << >>) =>
               /\ \A k \in DOMAIN before :
                    /\ after[k].progress >= before[k].progress
                    /\ before[k].status = "complete" => after[k].status = "complete"
               /\ SumProgress(after, Len(after)) >= SumProgress(before, Len(before)) ]_vars

\* the frame stage was reported complete by a callback that counted more
\* frames than were estimated, and extraction still goes on
C38_CallbackBeyondEstimate ==
  \E i \in Threads :
    /\ workers[i].pc = "frames_periodic"
    /\ workers[i].current > workers[i].total
    /\ workers[i].all_steps[4].name = "Extracting frames"
    /\ workers[i].all_steps[4].progress = 100
    /\ workers[i].all_steps[4].status = "complete"

\* C39: the step by which an execution fails leaves the progress, the
\* current step and the stage list of its job record as they were, and no
\* stage of the record has the status error.
C39_ErrorKeepsSnapshot ==
  [][ \A t \in Threads :
        ( /\ workers[t].pc # "failed"
          /\ workers'[t].pc = "failed"
          /\ workers[t].job \in DOMAIN jobs_db )
        => LET before == jobs_db[workers[t].job]
               after == jobs_db'[workers[t].job]
           IN /\ after.status = ERROR
              /\ after.progress = before.progress
              /\ after.current_step = before.current_step
              /\ after.steps = before.steps
              /\ \A k \in DOMAIN after.steps : after.steps[k].status # "error" ]_vars

\* a job failed while a stage was under way: the record still shows that
\* stage in progress and the progress reached
C39_FailedMidStage ==
  \E job_id \in DOMAIN jobs_db :
    /\ jobs_db[job_id].status = ERROR
    /\ jobs_db[job_id].error # NONE
    /\ jobs_db[job_id].progress # << >>
    /\ \E k \in DOMAIN jobs_db[job_id].steps :
         /\ jobs_db[job_id].steps[k].status = "in_progress"
         /\ jobs_db[job_id].steps[k].progress > 0
         /\ jobs_db[job_id].current_step = jobs_db[job_id].steps[k].name
    /\ \E t \in Threads : workers[t].pc = "failed" /\ workers[t].job = job_id

====
